---- MODULE Spec2Model ----
(***************************************************************************)
(* Control plane for VPN exit nodes (backend/app/snippets/nave):           *)
(* the agent record store, the project quota pool, the provisioning        *)
(* workflow and the control-plane API of infra.py, over the cloud          *)
(* provider reached through gcp_client.py.                                 *)
(*                                                                         *)
(* Encoding of Python values.  Optional[T] is a sequence of length <= 1:   *)
(* None is <<>> and a value v is <<v>>.  A str is a sequence of            *)
(* one-character strings, so "" is <<>> as a str and <<<<>>>> as an        *)
(* Optional[str].  A header or bearer value is a record [kind, n].         *)
(***************************************************************************)
EXTENDS Integers, Sequences, FiniteSets, TLC

VARIABLES
    agents,     \* table app_nave_exit, in id order (id = index)
    projects,   \* table app_nave_project, in id order
    profiles,   \* table app_nave_profile: id -> network_json
    entropy,    \* number of tokens drawn from secrets.token_urlsafe so far
    now,        \* the clock read by now_utc()
    fw,         \* provider: projects in which the rule nave-wg-udp-51820 exists
    addrs,      \* provider: reserved addresses, [project, name]
    insts,      \* provider: instances, [project, name, script, via (the endpoint that created it)]
    usage,      \* provider: IN_USE_ADDRESSES usage per project
    req,        \* per in-flight POST /infra/provision request: its local state
    last,       \* the last response of a single-step endpoint
    wait,       \* a call of one of the operation waiters: its local state
    svc,        \* a call of enable_service: its local state
    node,       \* the agent process on an exit node (agent_template.py)
    regs        \* per in-flight POST /infra/projects/register: its local state

vars == <<agents, projects, profiles, entropy, now, fw, addrs, insts, usage, req, last,
          wait, svc, node, regs>>

\* the control plane and the provider / the processes around them
core == <<agents, projects, profiles, entropy, now, fw, addrs, insts, usage, req, last>>
ext == <<wait, svc, node, regs>>

(***************************************************************************)
(* Bounds of the model.                                                    *)
(***************************************************************************)
NReq == 2          \* concurrent provisioning requests
MaxAgents == 2     \* rows of app_nave_exit
MaxClock == 2      \* horizon of the clock
MaxInsts == 2      \* instances at the provider

None == <<>>
Some(v) == <<v>>
IsNone(o) == o = <<>>
Val(o) == o[1]

(***************************************************************************)
(* Strings that occur as inputs.                                           *)
(***************************************************************************)
Str_abc == <<"a", "b", "c">>
Str_abc_ip == <<"a", "b", "c", "-", "i", "p">>
Str_ab == <<"a", "b">>
Str_Invalid == <<"I", "n", "v", "a", "l", "i", "d", "_", "N", "a", "m", "e", "!">>
Str_abc_nl == <<"a", "b", "c", "\n">>
Str_dash == <<"a", "b", "-">>
Str_ip == <<"1", "0", ".", "0", ".", "0", ".", "7">>

Lower == {"a", "b", "c", "d", "e", "f", "g", "h", "i", "j", "k", "l", "m",
          "n", "o", "p", "q", "r", "s", "t", "u", "v", "w", "x", "y", "z"}
Digit == {"0", "1", "2", "3", "4", "5", "6", "7", "8", "9"}

\* re.compile(r"^[a-z]([-a-z0-9]{1,61}[a-z0-9])$"): the body between ^ and $
NameBody(s) ==
    /\ Len(s) >= 3
    /\ Len(s) - 2 <= 61
    /\ s[1] \in Lower
    /\ \A i \in 2..(Len(s) - 1) : s[i] \in Lower \cup Digit \cup {"-"}
    /\ s[Len(s)] \in Lower \cup Digit

\* _NAME_RE.match(name): Python's $ matches at the end of the string and also
\* just before a newline that ends the string
NAME_RE_match(s) ==
    \/ NameBody(s)
    \/ /\ Len(s) >= 1
       /\ s[Len(s)] = "\n"
       /\ NameBody(SubSeq(s, 1, Len(s) - 1))

\* _ensure_name(name): TRUE when it returns, FALSE when it raises 400
ensure_name(name) == NAME_RE_match(name)

\* Field(..., min_length=3, max_length=63) of ProvisionIn.name / InstanceCreateIn.name
NameFieldOk(name) == Len(name) >= 3 /\ Len(name) <= 63

\* Python truthiness of an Optional[str]
Truthy(o) == IF IsNone(o) THEN FALSE ELSE Val(o) # <<>>

(***************************************************************************)
(* Credentials.                                                            *)
(***************************************************************************)
NoHeader == [kind |-> "none", n |-> 0]            \* header absent (None)
EmptyString == [kind |-> "empty", n |-> 0]        \* header present, value ""
Garbage == [kind |-> "garbage", n |-> 0]          \* some other string
OperatorSession == [kind |-> "operator", n |-> 0] \* token of /api/v1/auth/finalize
AgentToken(i) == [kind |-> "agent", n |-> i]      \* the i-th token drawn

\* secrets.token_urlsafe(32): 256 bits from the system CSPRNG, modelled as a
\* nonce: the value of the (drawn+1)-th draw differs from every earlier one
token_urlsafe(drawn) == AgentToken(drawn + 1)

\* OAuth2PasswordBearer(tokenUrl=...): 401 without an Authorization: Bearer header
oauth2(bearer) == IF bearer = NoHeader THEN 401 ELSE 200

\* _auth(_token = Depends(oauth2)): returns None for whatever oauth2 let through
auth(bearer) == oauth2(bearer)

\* if not token: ... (None and "" are falsy)
TokenFalsy(token) == token = NoHeader \/ token = EmptyString

(***************************************************************************)
(* The agent record store.                                                 *)
(***************************************************************************)
\* a record stored without the token that is handed out
NaveExit_without_token(profile_id, vm_name, token) ==
    [profile_id |-> profile_id, vm_name |-> vm_name, address_name |-> None,
     public_ip |-> None, agent_token |-> EmptyString, desired_json |-> None,
     instance_json |-> None, status_json |-> None, last_seen_at |-> None]

\* NaveExit(profile_id=..., vm_name=..., agent_token=token, desired_json=None,
\*          status_json=None, last_seen_at=None)
NaveExit(profile_id, vm_name, token) ==
    [profile_id |-> profile_id, vm_name |-> vm_name, address_name |-> None,
     public_ip |-> None, agent_token |-> token, desired_json |-> None,
     instance_json |-> None, status_json |-> None, last_seen_at |-> None]

\* _create_agent with a token that is not drawn afresh
create_agent_fixed_token(profile_id, name) ==
    Append(agents, NaveExit(profile_id, name, token_urlsafe(0)))

\* _create_agent(db, profile_id, name): the table after db.add; db.commit
create_agent(profile_id, name) ==
    Append(agents, NaveExit(profile_id, name, token_urlsafe(entropy)))

\* select(NaveExit).where(NaveExit.id == agent_id, NaveExit.agent_token == token)
RowsByIdToken(agent_id, token) ==
    {i \in 1..Len(agents) : i = agent_id /\ agents[i].agent_token = token}

\* select(NaveExit).where(NaveExit.agent_token == token)
RowsByToken(token) == {i \in 1..Len(agents) : agents[i].agent_token = token}

\* the lookup with the token condition of the WHERE clause left out
agent_from_token_by_id_only(agent_id, token) ==
    IF TokenFalsy(token) THEN 0
    ELSE IF agent_id \in 1..Len(agents) THEN agent_id
    ELSE 0

\* _agent_from_token(db, agent_id, token): the row id, or 0 when it raises 401
agent_from_token(agent_id, token) ==
    IF TokenFalsy(token) THEN 0
    ELSE IF RowsByIdToken(agent_id, token) = {} THEN 0
    ELSE CHOOSE i \in RowsByIdToken(agent_id, token) : TRUE

\* what a single-step endpoint answered: the endpoint, the agent id of its path
\* (0 if it has none), the credential it was called with, the status code and
\* the body
Response(op, agent_id, cred, code, body) ==
    [op |-> op, agent_id |-> agent_id, cred |-> cred, code |-> code, body |-> body]


\* a JSON object as a set of <<key, value>> pairs; `blob or {}` of the handlers
EmptyDict == {}
DesiredDict_without_conf(wg_conf) == {<<"wg_conf", "">>}
DesiredDict(wg_conf) == {<<"wg_conf", wg_conf>>}
OrEmpty(o) == IF IsNone(o) THEN EmptyDict ELSE Val(o)

Idle == Response("none", 0, NoHeader, 0, EmptyDict)

\* body[key] of a JSON object
Get(body, key) == (CHOOSE p \in body : p[1] = key)[2]

(***************************************************************************)
(* Inputs of the single-step endpoints.                                    *)
(***************************************************************************)
AgentIds == 1..MaxAgents
PublicIps == {None, Some(Str_ip)}

\* now_utc(): the clock advances with every read, up to the model's horizon
now_utc == IF now < MaxClock THEN now + 1 ELSE now

(***************************************************************************)
(* POST /infra/agents/bootstrap                                            *)
(***************************************************************************)
create_agent_bootstrap(bearer, profile_id, name) ==
    /\ Len(agents) < MaxAgents
    /\ IF auth(bearer) # 200
       THEN /\ last' = Response("bootstrapAgent", 0, bearer, 401, EmptyDict)
            /\ UNCHANGED <<agents, entropy>>
       ELSE /\ agents' = Append(agents, NaveExit(profile_id, name, token_urlsafe(entropy)))
            /\ entropy' = entropy + 1
            /\ last' = Response("bootstrapAgent", 0, bearer, 200,
                                {<<"agent_id", Len(agents) + 1>>,
                                 <<"token", token_urlsafe(entropy)>>})
    /\ UNCHANGED <<projects, profiles, now, fw, addrs, insts, usage, req>>

(***************************************************************************)
(* POST /infra/agents/register                                             *)
(***************************************************************************)
register_agent(token, vm_name, public_ip) ==
    /\ LET rows == RowsByToken(token) IN
       IF rows = {}
       THEN /\ last' = Response("registerAgent", 0, token, 401, EmptyDict)
            /\ UNCHANGED <<agents, now>>
       ELSE IF Cardinality(rows) > 1
       THEN \* scalar_one_or_none() raises MultipleResultsFound
            /\ last' = Response("registerAgent", 0, token, 500, EmptyDict)
            /\ UNCHANGED <<agents, now>>
       ELSE LET id == CHOOSE i \in rows : TRUE IN
            /\ agents' = [agents EXCEPT
                 ![id].vm_name = IF Truthy(vm_name) THEN vm_name ELSE @,
                 ![id].public_ip = IF Truthy(public_ip) THEN public_ip ELSE @,
                 ![id].last_seen_at = Some(now_utc)]
            /\ now' = now_utc
            /\ last' = Response("registerAgent", 0, token, 200, {<<"agent_id", id>>})
    /\ UNCHANGED <<projects, profiles, entropy, fw, addrs, insts, usage, req>>

(***************************************************************************)
(* GET /infra/agents/{agent_id}/desired                                    *)
(***************************************************************************)
get_agent_desired(agent_id, token) ==
    /\ LET id == agent_from_token(agent_id, token) IN
       IF id = 0
       THEN /\ last' = Response("getDesired", agent_id, token, 401, EmptyDict)
            /\ UNCHANGED <<agents, now>>
       ELSE /\ agents' = [agents EXCEPT ![id].last_seen_at = Some(now_utc)]
            /\ now' = now_utc
            /\ last' = Response("getDesired", agent_id, token, 200,
                                OrEmpty(agents[id].desired_json))
    /\ UNCHANGED <<projects, profiles, entropy, fw, addrs, insts, usage, req>>

(***************************************************************************)
(* POST /infra/agents/{agent_id}/desired                                   *)
(***************************************************************************)
\* AgentDesiredIn.wg_conf: str = Field(min_length=10)
AgentDesiredInOk(wg_conf) == Len(wg_conf) >= 10

set_agent_desired(bearer, agent_id, wg_conf) ==
    /\ IF auth(bearer) # 200
       THEN /\ last' = Response("setDesired", agent_id, bearer, 401, EmptyDict)
            /\ UNCHANGED agents
       ELSE IF ~AgentDesiredInOk(wg_conf)
       THEN /\ last' = Response("setDesired", agent_id, bearer, 422, EmptyDict)
            /\ UNCHANGED agents
       ELSE IF agent_id \notin 1..Len(agents)
       THEN /\ last' = Response("setDesired", agent_id, bearer, 404, EmptyDict)
            /\ UNCHANGED agents
       ELSE /\ agents' = [agents EXCEPT ![agent_id].desired_json = Some(DesiredDict(wg_conf))]
            /\ last' = Response("setDesired", agent_id, bearer, 200, DesiredDict(wg_conf))
    /\ UNCHANGED <<projects, profiles, entropy, now, fw, addrs, insts, usage, req>>

(***************************************************************************)
(* POST /infra/agents/{agent_id}/status                                    *)
(***************************************************************************)
\* a status write that leaves last_seen_at alone
set_agent_status_no_seen(agent_id, token, status_json) ==
    /\ LET id == agent_from_token(agent_id, token) IN
       IF id = 0
       THEN /\ last' = Response("setStatus", agent_id, token, 401, EmptyDict)
            /\ UNCHANGED <<agents, now>>
       ELSE /\ agents' = [agents EXCEPT ![id].status_json = Some(status_json)]
            /\ now' = now_utc
            /\ last' = Response("setStatus", agent_id, token, 200, EmptyDict)
    /\ UNCHANGED <<projects, profiles, entropy, fw, addrs, insts, usage, req>>

set_agent_status(agent_id, token, status_json) ==
    /\ LET id == agent_from_token(agent_id, token) IN
       IF id = 0
       THEN /\ last' = Response("setStatus", agent_id, token, 401, EmptyDict)
            /\ UNCHANGED <<agents, now>>
       ELSE /\ agents' = [agents EXCEPT ![id].status_json = Some(status_json),
                                        ![id].last_seen_at = Some(now_utc)]
            /\ now' = now_utc
            /\ last' = Response("setStatus", agent_id, token, 200, EmptyDict)
    /\ UNCHANGED <<projects, profiles, entropy, fw, addrs, insts, usage, req>>

(***************************************************************************)
(* GET /infra/agents/{agent_id}/status                                     *)
(***************************************************************************)
get_agent_status(agent_id, token) ==
    /\ LET id == agent_from_token(agent_id, token) IN
       IF id = 0
       THEN last' = Response("getStatus", agent_id, token, 401, EmptyDict)
       ELSE last' = Response("getStatus", agent_id, token, 200,
                             OrEmpty(agents[id].status_json))
    /\ UNCHANGED <<agents, projects, profiles, entropy, now, fw, addrs, insts, usage, req>>


(***************************************************************************)
(* The project quota pool.                                                 *)
(***************************************************************************)
GCP_PROJECT_ID == "politicomap"
ProjectIds == {"p1", "p2"}
CloudProjects == ProjectIds \cup {GCP_PROJECT_ID}
RegisterInputs == {<<"p1">>, <<"p2">>, <<" p1 ", "p2">>, <<"  ", "p2", "p1">>}

\* pid.strip() on the identifiers that occur as inputs
strip(pid) == CASE pid = " p1 " -> "p1" [] pid = "  " -> "" [] OTHER -> pid

\* NaveProject(project_id=pid, is_active=True)
NaveProject(pid) == [project_id |-> pid, is_active |-> TRUE]

\* select(NaveProject).where(NaveProject.project_id == pid)
RowsByProjectId(rows, pid) == {i \in 1..Len(rows) : rows[i].project_id = pid}

\* the loop of register_projects over inp.projects: the table after it
RECURSIVE RegisterLoop(_, _)
RegisterLoop(rows, pids) ==
    IF pids = <<>> THEN rows
    ELSE LET pid == strip(Head(pids)) IN
         IF pid = "" THEN RegisterLoop(rows, Tail(pids))
         ELSE IF RowsByProjectId(rows, pid) # {} THEN RegisterLoop(rows, Tail(pids))
         ELSE RegisterLoop(Append(rows, NaveProject(pid)), Tail(pids))

\* POST /infra/projects/register
register_projects(bearer, pids) ==
    /\ IF auth(bearer) # 200
       THEN /\ last' = Response("registerProjects", 0, bearer, 401, EmptyDict)
            /\ UNCHANGED projects
       ELSE /\ projects' = RegisterLoop(projects, pids)
            /\ last' = Response("registerProjects", 0, bearer, 200, EmptyDict)
    /\ UNCHANGED <<agents, profiles, entropy, now, fw, addrs, insts, usage, req>>

\* register_projects step by step: per identifier one SELECT and, if it found
\* no row, one INSERT with its commit; other requests run in between
IdleReg == [pc |-> "idle", pids |-> <<>>, code |-> 0]

\* the request is read and authenticated
register_begin(r, bearer, pids) ==
    /\ regs[r].pc = "idle"
    /\ regs' = [regs EXCEPT ![r] =
                  IF auth(bearer) # 200
                  THEN [pc |-> "failed", pids |-> <<>>, code |-> 401]
                  ELSE [pc |-> "select", pids |-> pids, code |-> 0]]
    /\ last' = Idle
    /\ UNCHANGED <<agents, projects, profiles, entropy, now, fw, addrs, insts, usage, req,
                   wait, svc, node>>

\* lines 325-332: the next identifier is stripped and looked up; when none
\* is left the response is built
register_select(r) ==
    /\ regs[r].pc = "select"
    /\ IF regs[r].pids = <<>>
       THEN /\ regs' = [regs EXCEPT ![r].pc = "done", ![r].code = 200]
            /\ last' = Response("registerProjects", 0, OperatorSession, 200, EmptyDict)
       ELSE LET pid == strip(Head(regs[r].pids))
                found == RowsByProjectId(projects, pid)
            IN
            IF pid = "" \/ Cardinality(found) = 1
            THEN /\ regs' = [regs EXCEPT ![r].pids = Tail(@)]
                 /\ last' = Idle
            ELSE IF Cardinality(found) > 1
            THEN \* scalar_one_or_none() raises MultipleResultsFound
                 /\ regs' = [regs EXCEPT ![r].pc = "failed", ![r].code = 500]
                 /\ last' = Response("registerProjects", 0, OperatorSession, 500, EmptyDict)
            ELSE /\ regs' = [regs EXCEPT ![r].pc = "insert"]
                 /\ last' = Idle
    /\ UNCHANGED <<agents, projects, profiles, entropy, now, fw, addrs, insts, usage, req,
                   wait, svc, node>>

\* lines 333-337: the row is added and committed
register_insert(r) ==
    /\ regs[r].pc = "insert"
    /\ projects' = Append(projects, NaveProject(strip(Head(regs[r].pids))))
    /\ regs' = [regs EXCEPT ![r].pc = "select", ![r].pids = Tail(@)]
    /\ last' = Idle
    /\ UNCHANGED <<agents, profiles, entropy, now, fw, addrs, insts, usage, req,
                   wait, svc, node>>

\* the response has been sent: the caller may send its next request
register_end(r) ==
    /\ regs[r].pc \in {"done", "failed"}
    /\ regs' = [regs EXCEPT ![r] = IdleReg]
    /\ last' = Idle
    /\ UNCHANGED <<agents, projects, profiles, entropy, now, fw, addrs, insts, usage, req,
                   wait, svc, node>>

\* quotas.get("IN_USE_ADDRESSES") of get_region_quotas(project_id): None when the
\* provider reports no such metric, else {"limit": ..., "usage": ...}
QuotaLimit == 1
IN_USE_ADDRESSES(pid) ==
    IF IsNone(usage[pid]) THEN None
    ELSE Some([usage |-> usage[pid], limit |-> Some(QuotaLimit)])

\* x or 0
OrZero(o) == IF IsNone(o) THEN 0 ELSE Val(o)

\* the quota test with <= in place of <
project_has_quota_le(info) ==
    IF IsNone(info) THEN TRUE
    ELSE OrZero(Val(info).usage) <= OrZero(Val(info).limit)

\* _project_has_quota(project_id), given the metric read from the provider
project_has_quota(info) ==
    IF IsNone(info) THEN TRUE
    ELSE OrZero(Val(info).usage) < OrZero(Val(info).limit)


(***************************************************************************)
(* POST /infra/provision: provision_vm, one action per provider call.      *)
(* req[r] is the request's local state: its input, the rows its session    *)
(* loaded, the provider calls it issued so far (calls), and its response   *)
(* code once it ended (pc = "done" or "failed").                           *)
(***************************************************************************)
Req == 1..NReq

IdleReq ==
    [pc |-> "idle", cred |-> NoHeader, name |-> <<>>, address_name |-> <<>>,
     create_ip |-> FALSE, profile_id |-> None, agent_id |-> 0,
     loaded |-> <<>>, sess |-> <<>>, idx |-> 0, chosen |-> 0,
     calls |-> <<>>, fwDone |-> "no", fwPrior |-> {}, code |-> 0]

\* a provider call the request issued, and how it ended for the request
Call(kind, pid, result) == [kind |-> kind, project |-> pid, result |-> result]

\* f"{inp.name}-ip"
DefaultAddressName(name) == name \o <<"-", "i", "p">>

\* address_name = inp.address_name or f"{inp.name}-ip"
ResolveAddressName(name, address_name) ==
    IF Truthy(address_name) THEN Val(address_name) ELSE DefaultAddressName(name)

\* lines 234-241: validation, _create_agent, and the SELECT of _pick_project
provision_start(r, bearer, name, address_name, create_ip, profile_id) ==
    /\ req[r].pc = "idle"
    /\ LET in0 == [req EXCEPT ![r].cred = bearer, ![r].name = name,
                              ![r].create_ip = create_ip, ![r].profile_id = profile_id]
           resolved == ResolveAddressName(name, address_name)
       IN
       IF auth(bearer) # 200
       THEN /\ req' = [in0 EXCEPT ![r].pc = "failed", ![r].code = 401]
            /\ UNCHANGED <<agents, entropy>>
       ELSE IF ~NameFieldOk(name)
       THEN /\ req' = [in0 EXCEPT ![r].pc = "failed", ![r].code = 422]
            /\ UNCHANGED <<agents, entropy>>
       ELSE IF ~ensure_name(name) \/ ~ensure_name(resolved)
       THEN /\ req' = [in0 EXCEPT ![r].pc = "failed", ![r].code = 400,
                                  ![r].address_name = resolved]
            /\ UNCHANGED <<agents, entropy>>
       ELSE /\ Len(agents) < MaxAgents
            /\ agents' = create_agent(profile_id, Some(name))
            /\ entropy' = entropy + 1
            /\ IF projects = <<>>
               THEN req' = [in0 EXCEPT ![r].pc = "failed", ![r].code = 503,
                                       ![r].address_name = resolved,
                                       ![r].agent_id = Len(agents) + 1]
               ELSE req' = [in0 EXCEPT ![r].pc = "scan",
                                       ![r].address_name = resolved,
                                       ![r].agent_id = Len(agents) + 1,
                                       ![r].loaded = [i \in 1..Len(projects) |-> projects[i].is_active],
                                       ![r].sess = [i \in 1..Len(projects) |-> projects[i].is_active],
                                       ![r].idx = 1]
    /\ last' = Idle
    /\ UNCHANGED <<projects, profiles, now, fw, addrs, insts, usage>>

\* the body of the for loop of _pick_project for one project: the session's
\* view of the is_active flags after it
ScanFlag(sess, i, has_quota) ==
    IF has_quota
    THEN (IF ~sess[i] THEN [sess EXCEPT ![i] = TRUE] ELSE sess)
    ELSE (IF sess[i] THEN [sess EXCEPT ![i] = FALSE] ELSE sess)

\* if has_quota: ... if not chosen: chosen = proj
ScanChosen(chosen, i, has_quota) ==
    IF has_quota /\ chosen = 0 THEN i ELSE chosen

\* a commit that writes nothing
CommitFlags_nothing(rows, loaded, sess) == rows

\* db.commit(): UPDATE of the rows whose is_active the session changed
CommitFlags(rows, loaded, sess) ==
    [i \in 1..Len(rows) |->
        IF i <= Len(loaded) /\ sess[i] # loaded[i]
        THEN [rows[i] EXCEPT !.is_active = sess[i]]
        ELSE rows[i]]

\* a scan that passes over a project another in-flight request has selected
pick_project_step_reserving(r, provider_ok) ==
    /\ req[r].pc = "scan"
    /\ LET i == req[r].idx
           pid == projects[i].project_id
           called == [req EXCEPT ![r].calls =
                        Append(@, Call("quota", pid, IF provider_ok THEN "ok" ELSE "error"))]
           taken == \E q \in Req \ {r} :
                       req[q].chosen = i /\ req[q].pc \notin {"idle", "done", "failed"}
           has_quota == project_has_quota(IN_USE_ADDRESSES(pid)) /\ ~taken
           sess == ScanFlag(req[r].sess, i, has_quota)
           chosen == ScanChosen(req[r].chosen, i, has_quota)
       IN
       IF ~provider_ok
       THEN /\ req' = [called EXCEPT ![r].pc = "failed", ![r].code = 500]
            /\ UNCHANGED projects
       ELSE IF i < Len(req[r].loaded)
       THEN /\ req' = [called EXCEPT ![r].sess = sess, ![r].chosen = chosen, ![r].idx = i + 1]
            /\ UNCHANGED projects
       ELSE /\ projects' = CommitFlags(projects, req[r].loaded, sess)
            /\ IF chosen = 0
               THEN req' = [called EXCEPT ![r].sess = sess, ![r].idx = i + 1,
                                          ![r].pc = "failed", ![r].code = 503]
               ELSE req' = [called EXCEPT ![r].sess = sess, ![r].chosen = chosen,
                                          ![r].idx = i + 1, ![r].pc = "fw_get"]
    /\ last' = Idle
    /\ UNCHANGED <<agents, profiles, entropy, now, fw, addrs, insts, usage>>

\* one iteration of the loop of _pick_project; after the last one, the commit
\* and the choice (lines 162-175)
pick_project_step(r, provider_ok) ==
    /\ req[r].pc = "scan"
    /\ LET i == req[r].idx
           pid == projects[i].project_id
           called == [req EXCEPT ![r].calls =
                        Append(@, Call("quota", pid, IF provider_ok THEN "ok" ELSE "error"))]
           has_quota == project_has_quota(IN_USE_ADDRESSES(pid))
           sess == ScanFlag(req[r].sess, i, has_quota)
           chosen == ScanChosen(req[r].chosen, i, has_quota)
       IN
       IF ~provider_ok
       THEN \* _request raises HTTPException(resp.status_code, ...)
            /\ req' = [called EXCEPT ![r].pc = "failed", ![r].code = 500]
            /\ UNCHANGED projects
       ELSE IF i < Len(req[r].loaded)
       THEN /\ req' = [called EXCEPT ![r].sess = sess, ![r].chosen = chosen, ![r].idx = i + 1]
            /\ UNCHANGED projects
       ELSE /\ projects' = CommitFlags(projects, req[r].loaded, sess)
            /\ IF chosen = 0
               THEN req' = [called EXCEPT ![r].sess = sess, ![r].idx = i + 1,
                                          ![r].pc = "failed", ![r].code = 503]
               ELSE req' = [called EXCEPT ![r].sess = sess, ![r].chosen = chosen,
                                          ![r].idx = i + 1, ![r].pc = "fw_get"]
    /\ last' = Idle
    /\ UNCHANGED <<agents, profiles, entropy, now, fw, addrs, insts, usage>>

\* project.project_id of the project _pick_project returned
ChosenProject(r) == projects[req[r].chosen].project_id

\* requests whose ensure-firewall step has ended
FwEnded == {q \in Req : req[q].fwDone # "no"}

\* the ensure-firewall lookup with the `status_code != 404: raise` test left
\* out: every failed lookup leads to a create
get_firewall_step_create_on_error(r, status) ==
    /\ req[r].pc = "fw_get"
    /\ LET pid == ChosenProject(r)
           called == [req EXCEPT ![r].calls =
                        Append(@, Call("fw.get", pid,
                                    IF status = 200 THEN "ok" ELSE IF status = 404 THEN "absent" ELSE "error")),
                                 ![r].fwPrior = FwEnded]
       IN
       /\ status = 200 => pid \in fw
       /\ status = 404 => pid \notin fw
       /\ IF status = 200
          THEN req' = [called EXCEPT ![r].fwDone = "ok",
                                     ![r].pc = IF req[r].create_ip THEN "addr" ELSE "inst"]
          ELSE req' = [called EXCEPT ![r].pc = "fw_create"]
    /\ last' = Idle
    /\ UNCHANGED <<agents, projects, profiles, entropy, now, fw, addrs, insts, usage>>

\* lines 244-248: get_firewall and the except clause
get_firewall_step(r, status) ==
    /\ req[r].pc = "fw_get"
    /\ LET pid == ChosenProject(r)
           called == [req EXCEPT ![r].calls =
                        Append(@, Call("fw.get", pid,
                                    IF status = 200 THEN "ok" ELSE IF status = 404 THEN "absent" ELSE "error")),
                                 ![r].fwPrior = FwEnded]
       IN
       /\ status = 200 => pid \in fw
       /\ status = 404 => pid \notin fw
       /\ IF status = 200
          THEN req' = [called EXCEPT ![r].fwDone = "ok",
                                     ![r].pc = IF req[r].create_ip THEN "addr" ELSE "inst"]
          ELSE IF status # 404
          THEN req' = [called EXCEPT ![r].fwDone = "err", ![r].pc = "failed", ![r].code = status]
          ELSE req' = [called EXCEPT ![r].pc = "fw_create"]
    /\ last' = Idle
    /\ UNCHANGED <<agents, projects, profiles, entropy, now, fw, addrs, insts, usage>>

\* lines 249-255: create_firewall_rule (POST, wait_global_op, get_firewall)
create_firewall_rule_step(r, outcome) ==
    /\ req[r].pc = "fw_create"
    /\ LET pid == ChosenProject(r)
           called == [req EXCEPT ![r].calls =
                        Append(@, Call("fw.create", pid, IF outcome = "ok" THEN "ok" ELSE "error"))]
       IN
       \/ /\ outcome = "ok"
          /\ pid \notin fw
          /\ fw' = fw \cup {pid}
          /\ req' = [called EXCEPT ![r].fwDone = "ok",
                                   ![r].pc = IF req[r].create_ip THEN "addr" ELSE "inst"]
       \/ /\ outcome = "conflict"            \* 409: the rule already exists
          /\ pid \in fw
          /\ fw' = fw
          /\ req' = [called EXCEPT ![r].fwDone = "err", ![r].pc = "failed", ![r].code = 409]
       \/ /\ outcome = "rejected"            \* the POST fails, nothing is created
          /\ fw' = fw
          /\ req' = [called EXCEPT ![r].fwDone = "err", ![r].pc = "failed", ![r].code = 500]
       \/ /\ outcome = "late"                \* created, but the wait times out
          /\ pid \notin fw
          /\ fw' = fw \cup {pid}
          /\ req' = [called EXCEPT ![r].fwDone = "err", ![r].pc = "failed", ![r].code = 504]
    /\ last' = Idle
    /\ UNCHANGED <<agents, projects, profiles, entropy, now, addrs, insts, usage>>


\* the provider's view of a reserved address / an instance
Address(pid, name) == [project |-> pid, name |-> name]
Instance(pid, name, script, via) ==
    [project |-> pid, name |-> name, script |-> script, via |-> via]
InstanceKeys == {Address(i.project, i.name) : i \in insts}

\* a startup script rendered without the record's id
startup_script_without_id(agent_id, token, vm_name) ==
    [agent_id |-> 0, token |-> token, vm_name |-> vm_name]

\* _startup_script(api_base, agent_id, token, vm_name): what the rendered unit
\* file carries (NAVE_AGENT_ID, NAVE_AGENT_TOKEN, NAVE_VM_NAME)
startup_script(agent_id, token, vm_name) ==
    [agent_id |-> agent_id, token |-> token, vm_name |-> vm_name]

\* the provider has room for one more address in the project
AddressRoom(pid) == IF IsNone(usage[pid]) THEN TRUE ELSE Val(usage[pid]) < QuotaLimit

\* the address step with the failure of create_address swallowed: the workflow
\* goes on to the instance
create_address_step_continue(r, outcome) ==
    /\ req[r].pc = "addr"
    /\ LET pid == ChosenProject(r)
           a == Address(pid, req[r].address_name)
           called == [req EXCEPT ![r].calls =
                        Append(@, Call("addr.create", pid, IF outcome = "ok" THEN "ok" ELSE "error"))]
           reserved == [usage EXCEPT ![pid] = IF IsNone(@) THEN @ ELSE Some(Val(@) + 1)]
       IN
       \/ /\ outcome = "ok"
          /\ a \notin addrs /\ AddressRoom(pid)
          /\ addrs' = addrs \cup {a}
          /\ usage' = reserved
          /\ req' = [called EXCEPT ![r].pc = "inst"]
       \/ /\ outcome = "rejected"
          /\ UNCHANGED <<addrs, usage>>
          /\ req' = [called EXCEPT ![r].pc = "inst"]
       \/ /\ outcome = "late"
          /\ a \notin addrs /\ AddressRoom(pid)
          /\ addrs' = addrs \cup {a}
          /\ usage' = reserved
          /\ req' = [called EXCEPT ![r].pc = "inst"]
    /\ last' = Idle
    /\ UNCHANGED <<agents, projects, profiles, entropy, now, fw, insts>>

\* lines 257-258: create_address (POST, wait_region_op, get_address)
create_address_step(r, outcome) ==
    /\ req[r].pc = "addr"
    /\ LET pid == ChosenProject(r)
           a == Address(pid, req[r].address_name)
           called == [req EXCEPT ![r].calls =
                        Append(@, Call("addr.create", pid, IF outcome = "ok" THEN "ok" ELSE "error"))]
           reserved == [usage EXCEPT ![pid] = IF IsNone(@) THEN @ ELSE Some(Val(@) + 1)]
       IN
       \/ /\ outcome = "ok"
          /\ a \notin addrs /\ AddressRoom(pid)
          /\ addrs' = addrs \cup {a}
          /\ usage' = reserved
          /\ req' = [called EXCEPT ![r].pc = "inst"]
       \/ /\ outcome = "rejected"    \* 409 duplicate, 403 quota exceeded, or another error
          /\ UNCHANGED <<addrs, usage>>
          /\ req' = [called EXCEPT ![r].pc = "failed", ![r].code = 500]
       \/ /\ outcome = "late"        \* reserved, but the wait times out
          /\ a \notin addrs /\ AddressRoom(pid)
          /\ addrs' = addrs \cup {a}
          /\ usage' = reserved
          /\ req' = [called EXCEPT ![r].pc = "failed", ![r].code = 504]
    /\ last' = Idle
    /\ UNCHANGED <<agents, projects, profiles, entropy, now, fw, insts>>

\* lines 271-277: the natIP of the first access config, if any
ExtractPublicIp(instance) == instance.natIP

\* lines 286-300: profile.network_json = {...}
MirrorProfile(profile_id, name, address_name, public_ip, pid, agent_id) ==
    IF OrZero(profile_id) # 0 /\ OrZero(profile_id) \in DOMAIN profiles
    THEN [profiles EXCEPT ![Val(profile_id)] =
            Some([vm_name |-> name, address_name |-> address_name,
                  public_ip |-> public_ip, project_id |-> pid, agent_id |-> agent_id])]
    ELSE profiles

\* an update that writes the whole row as it was when the run created it
UpdateRecord_whole_row(id, name, address_name, public_ip, instance) ==
    [agents EXCEPT ![id] = [NaveExit(@.profile_id, Some(name), @.agent_token)
                               EXCEPT !.address_name = Some(address_name),
                                      !.public_ip = public_ip,
                                      !.instance_json = Some(instance)]]

\* lines 279-284: the run's update of its record; the commit writes the
\* columns that were assigned
UpdateRecord(id, name, address_name, public_ip, instance) ==
    [agents EXCEPT ![id].vm_name = Some(name),
                   ![id].address_name = Some(address_name),
                   ![id].public_ip = public_ip,
                   ![id].instance_json = Some(instance)]

\* lines 260-308: create_instance (get_address, POST, wait_zone_op, get_instance),
\* then the update of the record, the mirror onto the profile and the response
create_instance_step(r, outcome, natIP) ==
    /\ req[r].pc = "inst"
    /\ LET pid == ChosenProject(r)
           id == req[r].agent_id
           script == startup_script(id, agents[id].agent_token, req[r].name)
           looked == [req EXCEPT ![r].calls =
                        Append(@, Call("addr.get", pid, IF outcome = "no_address" THEN "error" ELSE "ok"))]
           called == [looked EXCEPT ![r].calls =
                        Append(@, Call("inst.create", pid, IF outcome = "ok" THEN "ok" ELSE "error"))]
           instance == [name |-> req[r].name, project |-> pid, natIP |-> natIP]
       IN
       \/ /\ outcome = "no_address"  \* get_address fails (404 or another error)
          /\ natIP = None
          /\ UNCHANGED <<insts, agents, profiles>>
          /\ req' = [looked EXCEPT ![r].pc = "failed", ![r].code = 404]
       \/ /\ outcome = "rejected"    \* the POST fails, nothing is created
          /\ natIP = None
          /\ Address(pid, req[r].address_name) \in addrs
          /\ UNCHANGED <<insts, agents, profiles>>
          /\ req' = [called EXCEPT ![r].pc = "failed", ![r].code = 500]
       \/ /\ outcome = "late"        \* created, but the wait times out
          /\ natIP = None
          /\ Address(pid, req[r].address_name) \in addrs
          /\ Address(pid, req[r].name) \notin InstanceKeys
          /\ Cardinality(insts) < MaxInsts
          /\ insts' = insts \cup {Instance(pid, req[r].name, Some(script), "provision")}
          /\ UNCHANGED <<agents, profiles>>
          /\ req' = [called EXCEPT ![r].pc = "failed", ![r].code = 504]
       \/ /\ outcome = "ok"
          /\ Address(pid, req[r].address_name) \in addrs
          /\ Address(pid, req[r].name) \notin InstanceKeys
          /\ Cardinality(insts) < MaxInsts
          /\ insts' = insts \cup {Instance(pid, req[r].name, Some(script), "provision")}
          /\ agents' = UpdateRecord(id, req[r].name, req[r].address_name,
                                    ExtractPublicIp(instance), instance)
          /\ profiles' = MirrorProfile(req[r].profile_id, req[r].name, req[r].address_name,
                                       ExtractPublicIp(instance), pid, id)
          /\ req' = [called EXCEPT ![r].pc = "done", ![r].code = 200]
    /\ last' = Idle
    /\ UNCHANGED <<projects, entropy, now, fw, addrs, usage>>

(***************************************************************************)
(* POST /infra/instances: create_vm, in the default project.               *)
(***************************************************************************)
create_vm(bearer, name, address_name, script, provider_ok) ==
    /\ IF auth(bearer) # 200
       THEN /\ last' = Response("createInstance", 0, bearer, 401, EmptyDict)
            /\ UNCHANGED insts
       ELSE IF ~NameFieldOk(name)
       THEN /\ last' = Response("createInstance", 0, bearer, 422, EmptyDict)
            /\ UNCHANGED insts
       ELSE IF ~ensure_name(name) \/ (Truthy(address_name) /\ ~ensure_name(Val(address_name)))
       THEN /\ last' = Response("createInstance", 0, bearer, 400, EmptyDict)
            /\ UNCHANGED insts
       ELSE IF Truthy(address_name) /\ Address(GCP_PROJECT_ID, Val(address_name)) \notin addrs
       THEN /\ last' = Response("createInstance", 0, bearer, 404, EmptyDict)
            /\ UNCHANGED insts
       ELSE IF ~provider_ok \/ Address(GCP_PROJECT_ID, name) \in InstanceKeys
       THEN /\ last' = Response("createInstance", 0, bearer, 500, EmptyDict)
            /\ UNCHANGED insts
       ELSE /\ Cardinality(insts) < MaxInsts
            /\ insts' = insts \cup {Instance(GCP_PROJECT_ID, name, script, "createInstance")}
            /\ last' = Response("createInstance", 0, bearer, 200, EmptyDict)
    /\ UNCHANGED <<agents, projects, profiles, entropy, now, fw, addrs, usage, req>>



(***************************************************************************)
(* The operation waiters: wait_region_op, wait_zone_op, wait_global_op of   *)
(* gcp_client.py and _wait_folder_op, _wait_project_op of gcp_admin.py.     *)
(* wait.elapsed is time.time() - start; a poll is one _request.               *)
(***************************************************************************)
Waiters == {"region", "zone", "global", "folder", "project"}

\* timeout_s of each waiter (its default, which every caller uses)
wait_timeout_s(w) ==
    CASE w = "region" -> 120 [] w = "zone" -> 180 [] w = "global" -> 120
      [] w = "folder" -> 120 [] w = "project" -> 180

\* time.sleep(...) between two polls
wait_sleep_s(w) == IF w = "project" THEN 3 ELSE 2

\* the waiter reads op.get("error") of a finished operation
wait_reads_error(w) == w \in {"region", "zone", "global"}

\* how long one _request may take (requests' timeout is 30 s)
PollDurations == {0, 1, 30}

IdleWait == [pc |-> "idle", waiter |-> "none", elapsed |-> 0, polls |-> 0,
             done |-> FALSE, error |-> FALSE, code |-> 0]

\* start = time.time()
wait_start(w) ==
    /\ wait.pc = "idle"
    /\ wait' = [IdleWait EXCEPT !.pc = "poll", !.waiter = w]
    /\ UNCHANGED <<core, svc, node, regs>>

\* one iteration up to the sleep: the poll took d seconds and answered with
\* HTTP status http, an operation that is done or not, with or without an
\* error payload
wait_poll(d, http, done, error) ==
    /\ wait.pc = "poll"
    /\ LET w == wait.waiter
           polled == [wait EXCEPT !.elapsed = @ + d, !.polls = 1,
                                !.done = (http < 400 /\ done),
                                !.error = (http < 400 /\ done /\ error)]
       IN
       IF http >= 400
       THEN wait' = [polled EXCEPT !.pc = "failed", !.code = http]
       ELSE IF done
       THEN IF wait_reads_error(w) /\ error
            THEN wait' = [polled EXCEPT !.pc = "failed", !.code = 500]
            ELSE wait' = [polled EXCEPT !.pc = "returned"]
       ELSE IF polled.elapsed > wait_timeout_s(w)
       THEN wait' = [polled EXCEPT !.pc = "failed", !.code = 504]
       ELSE wait' = [polled EXCEPT !.pc = "sleep"]
    /\ UNCHANGED <<core, svc, node, regs>>

\* a sleep during which no time passes
wait_sleep_no_time ==
    /\ wait.pc = "sleep"
    /\ wait' = [wait EXCEPT !.pc = "poll"]
    /\ UNCHANGED <<core, svc, node, regs>>

\* time.sleep(2) / time.sleep(3)
wait_sleep ==
    /\ wait.pc = "sleep"
    /\ wait' = [wait EXCEPT !.pc = "poll", !.elapsed = @ + wait_sleep_s(wait.waiter)]
    /\ UNCHANGED <<core, svc, node, regs>>

(***************************************************************************)
(* enable_service of gcp_admin.py.  svc.elapsed is time.time() - start,     *)
(* svc.delays the time.sleep(backoff) calls made so far, svc.cause the      *)
(* class of the last exception caught, svc.answers the classes of the       *)
(* provider's answers so far ("mixed" once they differ).                    *)
(***************************************************************************)
enable_timeout_s == 300
backoff_start == 2
backoff_cap == 20

Min(a, b) == IF a <= b THEN a ELSE b

IdleEnable == [pc |-> "idle", elapsed |-> 0, backoff |-> backoff_start, delays |-> <<>>,
               cause |-> "none", answers |-> "none", code |-> 0]

\* the provider's answers to the requests of enable_service: the operation is
\* done, it is pending, an error of the class that is retried (403 with
\* SERVICE_DISABLED / "has not been used" / PERMISSION_DENIED in its text), or
\* any other error
EnableAnswers == {"done", "pending", "transient", "fatal"}

\* the HTTP status _request raises for an error answer
AnswerCode(answer) == IF answer = "transient" THEN 403 ELSE 500

\* the classes of the answers so far, after one more
Answered(s, answer) ==
    [s EXCEPT !.answers = IF @ \in {"none", answer} THEN answer ELSE "mixed"]

\* the except clause (lines 130-138) for an exception of class cause
enable_except(s, cause, code) ==
    IF cause = "transient"
    THEN IF s.elapsed > enable_timeout_s
         THEN [s EXCEPT !.pc = "failed", !.cause = cause, !.code = code]
         ELSE [s EXCEPT !.pc = "backoff", !.cause = cause]
    ELSE [s EXCEPT !.pc = "failed", !.cause = cause, !.code = code]

\* start = time.time(); backoff = 2
enable_start ==
    /\ svc.pc = "idle"
    /\ svc' = [IdleEnable EXCEPT !.pc = "enable"]
    /\ UNCHANGED <<core, wait, node, regs>>

\* lines 114-122: the POST ...:enable took d seconds
enable_post(d, answer) ==
    /\ svc.pc = "enable"
    /\ LET s == Answered([svc EXCEPT !.elapsed = @ + d], answer) IN
       svc' = CASE answer = "done" -> [s EXCEPT !.pc = "returned"]
                [] answer = "pending" -> [s EXCEPT !.pc = "poll"]
                [] OTHER -> enable_except(s, answer, AnswerCode(answer))
    /\ UNCHANGED <<core, wait, node, regs>>

\* lines 124-128: one poll of the operation, which took d seconds
enable_poll(d, answer) ==
    /\ svc.pc = "poll"
    /\ LET s == Answered([svc EXCEPT !.elapsed = @ + d], answer) IN
       svc' = CASE answer = "done" -> [s EXCEPT !.pc = "returned"]
                [] answer = "pending" ->
                     IF s.elapsed > enable_timeout_s
                     THEN enable_except(s, "timeout", 504)
                     ELSE [s EXCEPT !.pc = "poll_sleep"]
                [] OTHER -> enable_except(s, answer, AnswerCode(answer))
    /\ UNCHANGED <<core, wait, node, regs>>

\* line 129: time.sleep(2)
enable_poll_sleep ==
    /\ svc.pc = "poll_sleep"
    /\ svc' = [svc EXCEPT !.pc = "poll", !.elapsed = @ + 2]
    /\ UNCHANGED <<core, wait, node, regs>>

\* a backoff that doubles without the cap
enable_backoff_uncapped ==
    /\ svc.pc = "backoff"
    /\ svc' = [svc EXCEPT !.pc = "enable",
                          !.elapsed = @ + svc.backoff,
                          !.delays = Append(@, svc.backoff),
                          !.backoff = @ * 2]
    /\ UNCHANGED <<core, wait, node, regs>>

\* lines 135-137: time.sleep(backoff); backoff = min(backoff * 2, 20); continue
enable_backoff ==
    /\ svc.pc = "backoff"
    /\ svc' = [svc EXCEPT !.pc = "enable",
                          !.elapsed = @ + svc.backoff,
                          !.delays = Append(@, svc.backoff),
                          !.backoff = Min(@ * 2, backoff_cap)]
    /\ UNCHANGED <<core, wait, node, regs>>

(***************************************************************************)
(* The reconciliation agent (agent_template.py): one process on the node.  *)
(* Its requests are served by the handlers above; a request may also never *)
(* arrive, or be served while its response is lost.  The `ts` field of a   *)
(* status is left out.                                                     *)
(***************************************************************************)
\* hashlib.sha256(conf.encode("utf-8")).hexdigest(): injective on the
\* configurations of the model and never the empty string
sha256(s) == "sha256(" \o s \o ")"

\* json encoding of a bool
json_bool(b) == IF b THEN "true" ELSE "false"

AgentConfs == {"[Interface]A", "[Interface]B"}
FetchOutcomes == {"unreachable", "lost", "malformed", "answered"}
PostOutcomes == {"unreachable", "lost", "answered"}
WriteOutcomes == {"ok", "denied", "truncated"}
RunOutcomes == {"zero", "nonzero", "raise"}

\* the node before the agent starts: AGENT_ID "" is 0; `file` is the content
\* of /etc/wireguard/wg0.conf and `iface` the configuration wg0 runs ("" if
\* there is none); `history` is the set of configurations this process has
\* applied, `registered` whether it has sent its register request
NodeDown == [pc |-> "down", agent_id |-> 0, token |-> NoHeader, last_hash |-> "",
             conf |-> "", applied |-> FALSE, error |-> "",
             file |-> "", iface |-> "", history |-> {}, registered |-> FALSE]

\* the process starts: TOKEN is required, last_hash = ""
\* a start that keeps what the previous process had in memory
agent_boot_keep_hash(env_id, env_token) ==
    /\ node.pc = "down"
    /\ node' = IF TokenFalsy(env_token)
               THEN [node EXCEPT !.pc = "exit"]
               ELSE [node EXCEPT !.pc = "register", !.agent_id = env_id,
                                 !.token = env_token]
    /\ UNCHANGED <<core, wait, svc, regs>>

agent_boot(env_id, env_token) ==
    /\ node.pc = "down"
    /\ node' = IF TokenFalsy(env_token)
               THEN [node EXCEPT !.pc = "exit"]
               ELSE [NodeDown EXCEPT !.pc = "register", !.agent_id = env_id,
                                     !.token = env_token, !.file = node.file,
                                     !.iface = node.iface]
    /\ UNCHANGED <<core, wait, svc, regs>>

\* the process ends (killed, crashed or exited) and the service manager is
\* about to start it again (Restart=always): the file and the interface stay
agent_terminate ==
    /\ node.pc # "down"
    /\ node' = [node EXCEPT !.pc = "down"]
    /\ UNCHANGED <<core, wait, svc, regs>>

\* register(), called once before the loop and outside its try
agent_register(outcome) ==
    /\ node.pc = "register"
    /\ IF node.agent_id # 0
       THEN /\ node' = [node EXCEPT !.pc = "fetch"]
            /\ UNCHANGED core
       ELSE IF outcome = "unreachable"
       THEN /\ node' = [node EXCEPT !.pc = "crashed"]
            /\ UNCHANGED core
       ELSE /\ register_agent(node.token, Some(Str_abc), None)
            /\ node' = IF outcome = "answered" /\ last'.code = 200
                       THEN [node EXCEPT !.pc = "fetch", !.registered = TRUE,
                                         !.agent_id = Get(last'.body, "agent_id")]
                       ELSE [node EXCEPT !.pc = "crashed", !.registered = TRUE]
    /\ UNCHANGED <<wait, svc, regs>>

\* except Exception as e: the cycle goes on to report str(e)
Except(cause) == [node EXCEPT !.pc = "report_err", !.error = cause]

\* desired.get("wg_conf", "")
WgConf(desired) ==
    IF \E p \in desired : p[1] = "wg_conf" THEN Get(desired, "wg_conf") ELSE ""

Changed_always(conf, last_hash) == conf # ""

\* conf_hash and conf_hash != last_hash
Changed(conf, last_hash) ==
    LET conf_hash == IF conf # "" THEN sha256(conf) ELSE ""
    IN conf_hash # "" /\ conf_hash # last_hash

\* GET .../desired, raise_for_status, and the comparison of hashes
agent_fetch(outcome) ==
    /\ node.pc = "fetch"
    /\ IF outcome = "unreachable"
       THEN /\ node' = Except("ConnectionError")
            /\ UNCHANGED core
       ELSE /\ get_agent_desired(node.agent_id, node.token)
            /\ node' = IF outcome = "lost" THEN Except("Timeout")
                       ELSE IF last'.code >= 400 THEN Except("HTTPError")
                       ELSE IF outcome = "malformed" THEN Except("JSONDecodeError")
                       ELSE LET conf == WgConf(last'.body) IN
                            [node EXCEPT !.conf = conf, !.applied = FALSE,
                                         !.pc = IF Changed(conf, node.last_hash)
                                                THEN "write" ELSE "report"]
    /\ UNCHANGED <<wait, svc, regs>>

\* apply_wg: makedirs, open(..., "w") and write
agent_write(outcome) ==
    /\ node.pc = "write"
    /\ node' = CASE outcome = "ok" -> [node EXCEPT !.pc = "down_wg", !.file = node.conf]
                 [] outcome = "denied" -> Except("OSError")
                 [] outcome = "truncated" -> [Except("OSError") EXCEPT !.file = ""]
    /\ UNCHANGED <<core, wait, svc, regs>>

\* apply_wg: wg-quick down wg0, its exit status ignored
agent_down(outcome) ==
    /\ node.pc = "down_wg"
    /\ node' = CASE outcome = "zero" -> [node EXCEPT !.pc = "up_wg", !.iface = ""]
                 [] outcome = "nonzero" -> [node EXCEPT !.pc = "up_wg"]
                 [] outcome = "raise" -> Except("FileNotFoundError")
    /\ UNCHANGED <<core, wait, svc, regs>>

\* apply_wg: wg-quick up wg0, check=True; then last_hash = conf_hash
agent_up_hash_on_failure(outcome) ==
    /\ node.pc = "up_wg"
    /\ node' = CASE outcome = "zero" ->
                      [node EXCEPT !.pc = "report", !.iface = node.file,
                                   !.applied = TRUE, !.last_hash = sha256(node.conf),
                                   !.history = @ \cup {node.conf}]
                 [] outcome = "nonzero" ->
                      [Except("CalledProcessError") EXCEPT !.last_hash = sha256(node.conf)]
                 [] outcome = "raise" -> Except("FileNotFoundError")
    /\ UNCHANGED <<core, wait, svc, regs>>

agent_up_keep_hash(outcome) ==
    /\ node.pc = "up_wg"
    /\ node' = CASE outcome = "zero" ->
                      [node EXCEPT !.pc = "report", !.iface = node.file,
                                   !.applied = TRUE, !.history = @ \cup {node.conf}]
                 [] outcome = "nonzero" -> Except("CalledProcessError")
                 [] outcome = "raise" -> Except("FileNotFoundError")
    /\ UNCHANGED <<core, wait, svc, regs>>

agent_up(outcome) ==
    /\ node.pc = "up_wg"
    /\ node' = CASE outcome = "zero" ->
                      [node EXCEPT !.pc = "report", !.iface = node.file,
                                   !.applied = TRUE, !.last_hash = sha256(node.conf),
                                   !.history = @ \cup {node.conf}]
                 [] outcome = "nonzero" -> Except("CalledProcessError")
                 [] outcome = "raise" -> Except("FileNotFoundError")
    /\ UNCHANGED <<core, wait, svc, regs>>

\* the status of a cycle that raised nothing
Status(last_hash, applied) ==
    {<<"wg_conf_hash", last_hash>>, <<"applied", json_bool(applied)>>}

\* the status of a cycle that raised
ErrorStatus(cause) == {<<"error", cause>>}

\* POST .../status; the response's status code is not looked at
agent_report(outcome) ==
    /\ node.pc = "report"
    /\ IF outcome = "unreachable"
       THEN /\ node' = Except("ConnectionError")
            /\ UNCHANGED core
       ELSE /\ set_agent_status(node.agent_id, node.token,
                                Status(node.last_hash, node.applied))
            /\ node' = IF outcome = "lost" THEN Except("Timeout")
                       ELSE [node EXCEPT !.pc = "sleep"]
    /\ UNCHANGED <<wait, svc, regs>>

\* the POST of the except clause; whatever it raises is passed over
agent_report_err_exit(outcome) ==
    /\ node.pc = "report_err"
    /\ IF outcome = "unreachable"
       THEN UNCHANGED core
       ELSE set_agent_status(node.agent_id, node.token, ErrorStatus(node.error))
    /\ node' = [node EXCEPT !.pc = IF outcome = "answered" THEN "sleep" ELSE "crashed",
                            !.error = ""]
    /\ UNCHANGED <<wait, svc, regs>>

agent_report_err(outcome) ==
    /\ node.pc = "report_err"
    /\ IF outcome = "unreachable"
       THEN UNCHANGED core
       ELSE set_agent_status(node.agent_id, node.token, ErrorStatus(node.error))
    /\ node' = [node EXCEPT !.pc = "sleep", !.error = ""]
    /\ UNCHANGED <<wait, svc, regs>>

\* time.sleep(10), then the next iteration
agent_sleep ==
    /\ node.pc = "sleep"
    /\ node' = [node EXCEPT !.pc = "fetch"]
    /\ UNCHANGED <<core, wait, svc, regs>>


(***************************************************************************)
(* Specifications.  Init is the state after construction: empty tables,    *)
(* an untouched provider whose address usage per project is whatever the   *)
(* projects' other tenants left.                                           *)
(***************************************************************************)
ProfileIds == {1}
UsageValues == {None} \cup {Some(n) : n \in 0..QuotaLimit}
InFlight(r) == req[r].pc \notin {"idle", "done", "failed"}

\* bodies of POST /infra/provision
ProvisionIn(name, address_name, create_ip, profile_id) ==
    [name |-> name, address_name |-> address_name, create_ip |-> create_ip,
     profile_id |-> profile_id]
ProvisionInputs ==
    {ProvisionIn(Str_abc, None, TRUE, Some(1)),
     ProvisionIn(Str_abc, None, FALSE, None),
     ProvisionIn(Str_Invalid, None, TRUE, None)}

\* the provider and the tables before the first request
InitWith(usages) ==
    /\ agents = <<>>
    /\ projects = <<>>
    /\ profiles = [i \in ProfileIds |-> None]
    /\ entropy = 0
    /\ now = 0
    /\ fw = {}
    /\ addrs = {}
    /\ insts = {}
    /\ usage \in usages
    /\ req = [r \in Req |-> IdleReq]
    /\ last = Idle
    /\ wait = IdleWait
    /\ svc = IdleEnable
    /\ node = NodeDown
    /\ regs = [r \in Req |-> IdleReg]

\* the steps of an in-flight provisioning request: every outcome of each
\* provider call
ProvisionSteps(r) ==
    \/ \E ok \in BOOLEAN : pick_project_step(r, ok) /\ UNCHANGED ext
    \/ \E st \in {200, 404, 500} : get_firewall_step(r, st) /\ UNCHANGED ext
    \/ \E o \in {"ok", "conflict", "rejected", "late"} :
          create_firewall_rule_step(r, o) /\ UNCHANGED ext
    \/ \E o \in {"ok", "rejected", "late"} : create_address_step(r, o) /\ UNCHANGED ext
    \/ \E o \in {"no_address", "rejected", "late", "ok"}, ip \in PublicIps :
          create_instance_step(r, o, ip) /\ UNCHANGED ext

\* requests are interchangeable: request r arrives after request r - 1
Arrived(r) == IF r = 1 THEN TRUE ELSE req[r - 1].pc # "idle"

(***************************************************************************)
(* Spec: concurrent provisioning requests over a registered pool.          *)
(***************************************************************************)
Usages ==
    {u \in [CloudProjects -> UsageValues] :
        /\ IsNone(u[GCP_PROJECT_ID])
        /\ ~IsNone(u["p1"])
        /\ u["p2"] \in {None, Some(0)}}

Init == InitWith(Usages)

Next ==
    \/ register_projects(OperatorSession, <<" p1 ", "p2">>) /\ UNCHANGED ext
    \/ \E r \in Req, b \in {NoHeader, OperatorSession}, i \in ProvisionInputs :
          /\ Arrived(r)
          /\ provision_start(r, b, i.name, i.address_name, i.create_ip, i.profile_id)
          /\ UNCHANGED ext
    \/ \E r \in Req : ProvisionSteps(r)

Spec == Init /\ [][Next]_vars


(***************************************************************************)
(* SpecSeq: provisioning requests served one after the other (no two       *)
(* overlap), with every shape of request body and every registration.      *)
(***************************************************************************)
SeqInputs ==
    ProvisionInputs \cup
    {ProvisionIn(Str_abc_nl, Some(Str_abc_ip), TRUE, None),
     ProvisionIn(Str_ab, None, TRUE, None),
     ProvisionIn(Str_abc, Some(Str_dash), TRUE, None),
     ProvisionIn(Str_abc, Some(Str_abc_nl), TRUE, None)}

InitSeq == InitWith({u \in [CloudProjects -> UsageValues] : IsNone(u[GCP_PROJECT_ID])})

NextSeq ==
    \/ \E pids \in RegisterInputs : register_projects(OperatorSession, pids) /\ UNCHANGED ext
    \/ \E r \in Req, b \in {NoHeader, OperatorSession}, i \in SeqInputs :
          /\ Arrived(r)
          /\ \A q \in Req : ~InFlight(q)
          /\ provision_start(r, b, i.name, i.address_name, i.create_ip, i.profile_id)
          /\ UNCHANGED ext
    \/ \E r \in Req : ProvisionSteps(r)

SpecSeq == InitSeq /\ [][NextSeq]_vars


(***************************************************************************)
(* SpecApi: the agent-facing endpoints and the single-step admin endpoints *)
(* on records created by bootstrapAgent.                                   *)
(***************************************************************************)
ApiHeaders == {NoHeader, EmptyString, Garbage} \cup {AgentToken(i) : i \in AgentIds}
ApiBearers == {NoHeader, OperatorSession, AgentToken(1)}
ApiConfs == {"confA", "[Interface]A", "[Interface]B"}
ApiRegisterBodies == {<<None, None>>, <<Some(Str_abc), Some(Str_ip)>>}

InitApi == InitWith({[p \in CloudProjects |-> None]})

NextApi ==
    \/ \E b \in ApiBearers : create_agent_bootstrap(b, None, None) /\ UNCHANGED ext
    \/ \E t \in ApiHeaders, body \in ApiRegisterBodies :
          register_agent(t, body[1], body[2]) /\ UNCHANGED ext
    \/ \E a \in AgentIds, t \in ApiHeaders : get_agent_desired(a, t) /\ UNCHANGED ext
    \/ \E b \in ApiBearers, a \in AgentIds, c \in ApiConfs :
          set_agent_desired(b, a, c) /\ UNCHANGED ext
    \/ \E a \in AgentIds, t \in ApiHeaders, s \in {{<<"applied", "true">>}} :
          set_agent_status(a, t, s) /\ UNCHANGED ext
    \/ \E a \in AgentIds, t \in ApiHeaders : get_agent_status(a, t) /\ UNCHANGED ext
    \/ \E b \in ApiBearers : register_projects(b, <<"p1">>) /\ UNCHANGED ext

SpecApi == InitApi /\ [][NextApi]_vars


(***************************************************************************)
(* SpecAdmin: the endpoints that create agent records and instances:       *)
(* bootstrapAgent, the direct instance endpoint and concurrent             *)
(* provisioning requests, over an unmetered provider.                      *)
(***************************************************************************)
NextAdmin ==
    \/ \E b \in {NoHeader, OperatorSession} :
          create_agent_bootstrap(b, None, None) /\ UNCHANGED ext
    \/ register_projects(OperatorSession, <<"p1">>) /\ UNCHANGED ext
    \/ \E n \in {Str_abc, Str_Invalid}, ok \in BOOLEAN :
          create_vm(OperatorSession, n, None, None, ok) /\ UNCHANGED ext
    \/ \E r \in Req, i \in ProvisionInputs :
          /\ Arrived(r)
          /\ provision_start(r, OperatorSession, i.name, i.address_name, i.create_ip, i.profile_id)
          /\ UNCHANGED ext
    \/ \E r \in Req : ProvisionSteps(r)

SpecAdmin == InitApi /\ [][NextAdmin]_vars

(***************************************************************************)
(* SpecLife: records created by bootstrapAgent and by provisioning          *)
(* requests served one after the other, and every endpoint that touches a  *)
(* record called on them afterwards.                                       *)
(***************************************************************************)
LifeTokens == {AgentToken(i) : i \in AgentIds}

NextLife ==
    \/ create_agent_bootstrap(OperatorSession, None, None) /\ UNCHANGED ext
    \/ register_projects(OperatorSession, <<"p1">>) /\ UNCHANGED ext
    \/ \E r \in Req :
          /\ Arrived(r)
          /\ \A q \in Req : ~InFlight(q)
          /\ provision_start(r, OperatorSession, Str_abc, None, TRUE, None)
          /\ UNCHANGED ext
    \/ \E r \in Req : ProvisionSteps(r)
    \/ \E b \in ApiRegisterBodies :
          register_agent(AgentToken(1), b[1], b[2]) /\ UNCHANGED ext
    \/ \E a \in AgentIds, t \in LifeTokens : get_agent_desired(a, t) /\ UNCHANGED ext
    \/ \E a \in AgentIds : set_agent_desired(OperatorSession, a, "[Interface]A") /\ UNCHANGED ext
    \/ \E a \in AgentIds :
          set_agent_status(a, AgentToken(a), {<<"applied", "true">>}) /\ UNCHANGED ext
    \/ \E a \in AgentIds : get_agent_status(a, AgentToken(a)) /\ UNCHANGED ext

SpecLife == InitApi /\ [][NextLife]_vars

(***************************************************************************)
(* SpecAgent: one node's agent process against the control plane, the      *)
(* operator creating its record and setting its desired configuration at   *)
(* any time.  SpecAgentFair: the same when the process keeps running and   *)
(* its fetch, its apply and its status report succeed again and again.     *)
(***************************************************************************)
NextAgent ==
    \/ Len(agents) = 0 /\ create_agent_bootstrap(OperatorSession, None, None) /\ UNCHANGED ext
    \/ \E c \in AgentConfs : set_agent_desired(OperatorSession, 1, c) /\ UNCHANGED ext
    \/ \E id \in {0, 1}, t \in {EmptyString, AgentToken(1)} : agent_boot(id, t)
    \/ \E o \in PostOutcomes : agent_register(o)
    \/ \E o \in FetchOutcomes : agent_fetch(o)
    \/ \E o \in WriteOutcomes : agent_write(o)
    \/ \E o \in RunOutcomes : agent_down(o)
    \/ \E o \in RunOutcomes : agent_up(o)
    \/ \E o \in PostOutcomes : agent_report(o)
    \/ \E o \in PostOutcomes : agent_report_err(o)
    \/ agent_sleep

SpecAgent == InitApi /\ [][NextAgent]_vars

AgentStep ==
    \/ \E o \in PostOutcomes : agent_register(o)
    \/ \E o \in FetchOutcomes : agent_fetch(o)
    \/ \E o \in WriteOutcomes : agent_write(o)
    \/ \E o \in RunOutcomes : agent_down(o)
    \/ \E o \in RunOutcomes : agent_up(o)
    \/ \E o \in PostOutcomes : agent_report(o)
    \/ \E o \in PostOutcomes : agent_report_err(o)
    \/ agent_sleep

SpecAgentFair ==
    /\ SpecAgent
    /\ WF_vars(AgentStep)
    /\ SF_vars(agent_fetch("answered"))
    /\ SF_vars(agent_write("ok"))
    /\ SF_vars(agent_down("zero") \/ agent_down("nonzero"))
    /\ SF_vars(agent_up("zero"))
    /\ SF_vars(agent_report("answered"))

(***************************************************************************)
(* SpecRestart: SpecAgent with the process ending at any point and being   *)
(* started again.                                                          *)
(***************************************************************************)
NextRestart ==
    \/ NextAgent
    \/ agent_terminate

SpecRestart == InitApi /\ [][NextRestart]_vars

(***************************************************************************)
(* SpecRegister: concurrent project registrations, each running its loop   *)
(* step by step.                                                           *)
(***************************************************************************)
NextRegister ==
    \/ \E r \in Req, b \in {NoHeader, OperatorSession}, pids \in RegisterInputs :
          register_begin(r, b, pids)
    \/ \E r \in Req : register_select(r)
    \/ \E r \in Req : register_insert(r)
    \/ \E r \in Req : register_end(r)

SpecRegister == InitApi /\ [][NextRegister]_vars

(***************************************************************************)
(* SpecNames: provisioning requests that give no address name, served one  *)
(* after the other, over node names of every length around the limits.     *)
(***************************************************************************)
\* a name of n letters
LongName(n) == [i \in 1..n |-> "a"]

NameInputs ==
    {Str_ab, Str_abc, Str_dash, Str_Invalid,
     LongName(60), LongName(61), LongName(63), LongName(64)}

NextNames ==
    \/ register_projects(OperatorSession, <<"p1">>) /\ UNCHANGED ext
    \/ \E r \in Req, n \in NameInputs, ip \in BOOLEAN :
          /\ Arrived(r)
          /\ \A q \in Req : ~InFlight(q)
          /\ provision_start(r, OperatorSession, n, None, ip, None)
          /\ UNCHANGED ext
    \/ \E r \in Req : ProvisionSteps(r)

SpecNames == InitApi /\ [][NextNames]_vars

(***************************************************************************)
(* SpecWait: one call of an operation waiter against every provider         *)
(* behaviour; SpecWaitFair: the same when every poll and sleep returns.     *)
(***************************************************************************)
NextWait ==
    \/ \E w \in Waiters : wait_start(w)
    \/ \E d \in PollDurations, http \in {200, 500}, done \in BOOLEAN, error \in BOOLEAN :
          wait_poll(d, http, done, error)
    \/ wait_sleep

SpecWait == InitApi /\ [][NextWait]_vars

SpecWaitFair == SpecWait /\ WF_vars(NextWait)

(***************************************************************************)
(* SpecEnable: one call of enable_service against every provider behaviour. *)
(***************************************************************************)
NextEnable ==
    \/ enable_start
    \/ \E d \in PollDurations, answer \in EnableAnswers : enable_post(d, answer)
    \/ \E d \in PollDurations, answer \in EnableAnswers : enable_poll(d, answer)
    \/ enable_poll_sleep
    \/ enable_backoff

SpecEnable == InitApi /\ [][NextEnable]_vars

(***************************************************************************)
(* Properties.                                                             *)
(***************************************************************************)
\* the token is missing, or is not the stored token of record agent_id
\* (which it also is not when it is the token of another record)
TokenMismatch(agent_id, token) ==
    IF agent_id \in 1..Len(agents) THEN agents[agent_id].agent_token # token ELSE TRUE

NoRecordHolds(token) == \A i \in 1..Len(agents) : agents[i].agent_token # token

AgentOps == {"getDesired", "setStatus", "getStatus"}

\* C1: getDesired, setStatus and getStatus with a token that is missing or is
\* not the addressed record's token, and registerAgent with a token no record
\* holds, answer 401 and leave every agent record as it was.
C1_BadTokenRejected ==
    [][(\/ last'.op \in AgentOps /\ TokenMismatch(last'.agent_id, last'.cred)
        \/ last'.op = "registerAgent" /\ NoRecordHolds(last'.cred))
       => (last'.code = 401 /\ agents' = agents)]_vars

\* a record's valid token was presented for another record and rejected
C1_Witness ==
    /\ last.op \in {"getDesired", "setStatus", "getStatus"}
    /\ last.code = 401
    /\ \E i \in 1..Len(agents) : agents[i].agent_token = last.cred
    /\ Len(agents) >= 2

\* the admin endpoints that answer in one step
AdminOps == {"bootstrapAgent", "setDesired", "registerProjects"}

\* C2: an admin endpoint (bootstrapAgent, setDesired, project registration)
\* succeeds only for a caller that presents the operator-session credential;
\* an agent's bootstrap token or any other string is refused.
C2_AdminRequiresOperator ==
    (last.op \in AdminOps /\ last.code = 200) => last.cred = OperatorSession

\* C3: no two agent records hold the same bootstrap token.
C3_TokensUnique ==
    \A i, j \in 1..Len(agents) :
        i # j => agents[i].agent_token # agents[j].agent_token

\* a record created by a provisioning request, then one by bootstrapAgent
C3_Witness ==
    /\ Len(agents) >= 2
    /\ \E r \in Req : req[r].agent_id = 1
    /\ last.op = "bootstrapAgent"
    /\ last.code = 200

\* the instance's startup script carries the id and the token of record agents[id]
RecordIn(rows, i) ==
    IF IsNone(i.script) THEN FALSE
    ELSE IF Val(i.script).agent_id \in 1..Len(rows)
    THEN rows[Val(i.script).agent_id].agent_token = Val(i.script).token
    ELSE FALSE

\* C4 as stated: every instance created through the control plane, by the
\* provisioning workflow or by the direct instance endpoint, has an agent record.
C4_EveryInstanceHasRecord == \A i \in insts : RecordIn(agents, i)

\* C4: every instance created by the provisioning workflow has an agent record
\* that existed before the instance-create call was issued, and keeps it; the
\* direct instance endpoint creates instances without one.
C4_ProvisionedHasRecord ==
    [][/\ \A i \in insts' \ insts : i.via = "provision" => RecordIn(agents, i)
       /\ \A i \in insts' : i.via = "provision" => RecordIn(agents', i)]_vars

\* an instance of each origin exists
C4_Witness ==
    /\ \E i \in insts : i.via = "provision" /\ RecordIn(agents, i)
    /\ \E i \in insts : i.via = "createInstance"

\* the firewall-rule create calls a request issued
FwCreates(r) == {k \in 1..Len(req[r].calls) : req[r].calls[k].kind = "fw.create"}

\* request r has begun its ensure-firewall step
FwBegun(r) == \E k \in 1..Len(req[r].calls) : req[r].calls[k].kind = "fw.get"

\* the ensure-firewall steps of r1 and r2 run on the same project and overlap:
\* neither had ended when the other began
Overlapping(r1, r2) ==
    /\ r1 # r2
    /\ FwBegun(r1) /\ FwBegun(r2)
    /\ r1 \notin req[r2].fwPrior
    /\ r2 \notin req[r1].fwPrior
    /\ ChosenProject(r1) = ChosenProject(r2)

\* C5: concurrent provisioning requests that select the same project issue at
\* most one firewall-rule create call between them.
C5_AtMostOneCreate ==
    \A r1, r2 \in Req :
        Overlapping(r1, r2) => Cardinality(FwCreates(r1)) + Cardinality(FwCreates(r2)) <= 1

\* request r1's ensure-firewall step ended before r2's began, both on the same project
Successive(r1, r2) ==
    /\ r1 # r2
    /\ r1 \in req[r2].fwPrior
    /\ req[r2].fwDone # "no"
    /\ IF req[r1].chosen # 0 /\ req[r2].chosen # 0
       THEN ChosenProject(r1) = ChosenProject(r2)
       ELSE FALSE

\* every create call of r directly follows r's own lookup that answered not-found
CreateOnlyAfterAbsent(r) ==
    \A k \in FwCreates(r) :
        IF k > 1
        THEN req[r].calls[k - 1].kind = "fw.get" /\ req[r].calls[k - 1].result = "absent"
        ELSE FALSE

UnderQuota(pid) == IF IsNone(usage[pid]) THEN TRUE ELSE Val(usage[pid]) < QuotaLimit

\* the first of the first n projects in registration order that is under
\* quota, 0 if there is none
FirstUnderQuota(n) ==
    IF \E i \in 1..n : UnderQuota(projects[i].project_id)
    THEN CHOOSE i \in 1..n :
            /\ UnderQuota(projects[i].project_id)
            /\ \A j \in 1..(i - 1) : ~UnderQuota(projects[j].project_id)
    ELSE 0

\* the number of projects registered when the scan of r began
Scanned(r) == Len(req[r].loaded)

\* request r's scan ends in this step, and not by a provider error
ScanReturns(r) == req[r].pc = "scan" /\ req'[r].pc # "scan" /\ req'[r].code # 500

\* C7: a scan that no other request overlaps, over the projects registered
\* when it began, returns the first of them in registration order that is
\* under quota (no metric counts as under quota), fails with 503 exactly when
\* none is, and leaves the flag of each equal to whether it is under quota; a
\* scan over an empty pool fails with 503.
C7_ScanPicksFirstUnderQuota ==
    [][\A r \in Req :
          /\ ScanReturns(r) =>
                /\ (req'[r].pc = "failed" /\ req'[r].code = 503)
                      <=> FirstUnderQuota(Scanned(r)) = 0
                /\ FirstUnderQuota(Scanned(r)) # 0 =>
                      (req'[r].pc = "fw_get" /\ req'[r].chosen = FirstUnderQuota(Scanned(r)))
                /\ Len(projects') = Len(projects)
                /\ \A i \in 1..Len(projects) :
                      projects'[i].project_id = projects[i].project_id
                /\ \A i \in 1..Scanned(r) :
                      projects'[i].is_active = UnderQuota(projects[i].project_id)
          /\ (req[r].pc = "idle" /\ req'[r].code = 503) => projects = <<>>]_vars

\* the scan skipped and deactivated the first project and returned the second
C7_Witness ==
    \E r \in Req :
        /\ req[r].pc = "fw_get"
        /\ req[r].chosen = 2
        /\ ~projects[1].is_active
        /\ projects[2].is_active
        /\ ~UnderQuota(projects[1].project_id)

\* request r's scan ends in this step
ScanEnds(r) == req[r].pc = "scan" /\ req'[r].pc # "scan"

\* the flags the scan of r changed are stored as it set them
FlagsStored(r) ==
    \A i \in 1..Len(req[r].loaded) :
        req'[r].sess[i] # req[r].loaded[i] => projects'[i].is_active = req'[r].sess[i]

\* C8 as stated: however a scan ends (candidate, 503, or provider error on a
\* later project), the flags it changed are stored as it set them.
C8_EveryScanPersists ==
    [][\A r \in Req : ScanEnds(r) => FlagsStored(r)]_vars

\* C8: a scan that returns a candidate or fails with 503 stores the flags it
\* changed; a scan aborted by a provider error stores nothing.
C8_CompletedScanPersists ==
    [][\A r \in Req :
          ScanEnds(r) =>
             IF req'[r].code = 500 THEN projects' = projects ELSE FlagsStored(r)]_vars

\* a scan that found no candidate has deactivated a project, and the flag is stored
C8_Witness ==
    \E r \in Req :
        /\ req[r].pc = "failed"
        /\ req[r].code = 503
        /\ req[r].loaded # <<>>
        /\ \E i \in 1..Len(req[r].loaded) :
              /\ req[r].loaded[i]
              /\ ~req[r].sess[i]
              /\ ~projects[i].is_active

\* the name pattern: a lowercase letter, then 1 to 61 lowercase letters, digits
\* or '-', then a lowercase letter or digit, and nothing else
NamePattern(s) ==
    IF Len(s) < 3 \/ Len(s) > 63 THEN FALSE
    ELSE /\ s[1] \in Lower
         /\ \A i \in 2..(Len(s) - 1) : s[i] \in Lower \cup Digit \cup {"-"}
         /\ s[Len(s)] \in Lower \cup Digit

\* C9: an authenticated provisioning request whose name or address name does
\* not match the name pattern ends with a validation error, having made no
\* provider call, created no agent record and loaded no project.
C9_InvalidNameRejected ==
    \A r \in Req :
        (/\ req[r].pc # "idle"
         /\ req[r].cred = OperatorSession
         /\ ~NamePattern(req[r].name) \/ ~NamePattern(req[r].address_name))
        => /\ req[r].pc = "failed"
           /\ req[r].code \in {400, 422}
           /\ req[r].calls = <<>>
           /\ req[r].agent_id = 0
           /\ req[r].loaded = <<>>

\* the effects request r completed so far are in place
EffectsInPlace(r) ==
    /\ req'[r].agent_id # 0 => req'[r].agent_id \in 1..Len(agents')
    /\ \A k \in 1..Len(req'[r].calls) :
          LET c == req'[r].calls[k] IN
          /\ (c.kind = "fw.create" /\ c.result = "ok") => c.project \in fw'
          /\ (c.kind = "addr.create" /\ c.result = "ok")
                => Address(c.project, req'[r].address_name) \in addrs'

\* C10: a provider call that fails is the last call its request issues; the
\* request ends in an error and stays ended, its agent record receives no
\* instance info, and the record, the project flags, the firewall rule and the
\* reserved address that exist when it fails remain.
C10_FailureAborts ==
    [][\A r \in Req :
          /\ \A k \in 1..Len(req'[r].calls) :
                req'[r].calls[k].result = "error"
                   => (k = Len(req'[r].calls) /\ req'[r].pc = "failed")
          /\ req'[r].pc = "failed" =>
                /\ req'[r].code >= 400
                /\ IF req'[r].agent_id # 0
                   THEN IsNone(agents'[req'[r].agent_id].instance_json)
                   ELSE TRUE
          /\ req[r].pc = "failed" => req'[r] = req[r]
          /\ (req[r].pc # "failed" /\ req'[r].pc = "failed") =>
                /\ EffectsInPlace(r)
                /\ fw \subseteq fw'
                /\ addrs \subseteq addrs'
                /\ insts \subseteq insts'
                /\ projects' = projects \/ req[r].pc = "scan"
                /\ \A i \in 1..Len(agents) : agents'[i] = agents[i]]_vars

\* the instance-create call failed after the address was reserved: the address
\* and the record remain, the record has no instance info
C10_Witness ==
    \E r \in Req :
        /\ req[r].pc = "failed"
        /\ req[r].calls # <<>>
        /\ req[r].calls[Len(req[r].calls)].kind = "inst.create"
        /\ \E k \in 1..Len(req[r].calls) :
              req[r].calls[k].kind = "addr.create" /\ req[r].calls[k].result = "ok"
        /\ Address(ChosenProject(r), req[r].address_name) \in addrs
        /\ IsNone(agents[req[r].agent_id].instance_json)

\* C13: no waiter (region, zone, global, folder, project) returns normally
\* from an operation that finished with an error payload.
C13_NoSuccessOnError == wait.pc = "returned" => ~wait.error

\* the call of the waiter has ended
WaitEnded == wait.pc \in {"returned", "failed"}

\* C14: a waiter whose polls and sleeps all return ends: it returns only on a
\* poll that observed the operation done, it fails with 504 only when a poll
\* did not observe it done and the elapsed time exceeds the budget, and it
\* never goes to sleep with the budget exceeded.
C14_WaitTerminates ==
    /\ [](wait.pc = "returned" => wait.done)
    /\ []((wait.pc = "failed" /\ wait.code = 504)
            => (~wait.done /\ wait.elapsed > wait_timeout_s(wait.waiter)))
    /\ [](wait.pc = "sleep" => wait.elapsed <= wait_timeout_s(wait.waiter))
    /\ (wait.pc = "poll") ~> WaitEnded

\* the zone waiter gave up after its 180 s
C14_Witness ==
    /\ wait.pc = "failed"
    /\ wait.code = 504
    /\ wait.waiter = "zone"
    /\ wait.elapsed > 180

\* the pair a successful bootstrapAgent returned names a stored record
ReturnedPairStored ==
    IF last'.op = "bootstrapAgent" /\ last'.code = 200
    THEN LET id == Get(last'.body, "agent_id") IN
         IF id \in 1..Len(agents')
         THEN agents'[id].agent_token = Get(last'.body, "token")
         ELSE FALSE
    ELSE TRUE

\* an agent endpoint called with a record's id and that record's stored token
CalledWithStoredToken ==
    IF last'.op \in AgentOps /\ last'.agent_id \in 1..Len(agents)
    THEN last'.cred = agents[last'.agent_id].agent_token
    ELSE FALSE

\* C11: no operation deletes a record or changes a record's token; the (id,
\* token) pair returned by bootstrapAgent and the record of a successful
\* provision are stored; and getDesired, setStatus and getStatus called with
\* a record's id and stored token succeed, whatever happened in between.
C11_TokenStaysValid ==
    [][/\ Len(agents') >= Len(agents)
       /\ \A i \in 1..Len(agents) : agents'[i].agent_token = agents[i].agent_token
       /\ ReturnedPairStored
       /\ \A r \in Req : req'[r].pc = "done" => req'[r].agent_id \in 1..Len(agents')
       /\ CalledWithStoredToken => last'.code = 200]_vars

\* the token of a provisioned record is accepted after the record was
\* registered, given a desired configuration and a status
C11_Witness ==
    /\ last.op = "getDesired"
    /\ last.code = 200
    /\ \E r \in Req : req[r].pc = "done" /\ req[r].agent_id = last.agent_id
    /\ IF last.agent_id \in 1..Len(agents)
       THEN /\ ~IsNone(agents[last.agent_id].status_json)
            /\ ~IsNone(agents[last.agent_id].desired_json)
            /\ agents[last.agent_id].public_ip = Some(Str_ip)
       ELSE FALSE

\* the blob getDesired returns for a record: the stored one, empty if unset
DesiredBlob(i) ==
    IF IsNone(agents[i].desired_json) THEN {} ELSE Val(agents[i].desired_json)

\* a successful setDesired stores and returns the blob holding the
\* configuration it was given
SetDesiredStores ==
    IF last'.op = "setDesired" /\ last'.code = 200
    THEN /\ last'.agent_id \in 1..Len(agents)
         /\ \E c \in ApiConfs :
               /\ Len(c) >= 10
               /\ last'.body = {<<"wg_conf", c>>}
               /\ agents'[last'.agent_id].desired_json = Some({<<"wg_conf", c>>})
    ELSE TRUE

\* no other step changes a record's desired configuration
OnlySetDesiredWrites ==
    \A i \in 1..Len(agents) :
        agents'[i].desired_json # agents[i].desired_json
           => (last'.op = "setDesired" /\ last'.code = 200 /\ last'.agent_id = i)

\* C12: a successful setDesired(agentId, c) stores the blob holding c, no
\* step other than a successful setDesired for the record changes it, and a
\* successful getDesired returns the stored blob, the empty blob while none
\* was stored; setDesired on an absent record fails (404 once authenticated
\* and well-formed) and leaves the record store as it was.
C12_DesiredRoundTrip ==
    [][/\ SetDesiredStores
       /\ OnlySetDesiredWrites
       /\ (last'.op = "getDesired" /\ last'.code = 200)
             => last'.body = DesiredBlob(last'.agent_id)
       /\ (last'.op = "setDesired" /\ last'.agent_id \notin 1..Len(agents))
             => (last'.code \in {401, 422, 404} /\ agents' = agents)
       /\ (last'.op = "setDesired" /\ last'.code = 404)
             => last'.agent_id \notin 1..Len(agents)]_vars

\* getDesired returned the second configuration given to a record
C12_Witness ==
    /\ last.op = "getDesired"
    /\ last.code = 200
    /\ last.body = {<<"wg_conf", "[Interface]B">>}
    /\ Len(agents) = 1

\* C15: when every answer of the provider was a transient error, enable_service
\* fails with 504 (timeout), not with the provider's error.
C15_TimeoutAfterTransient ==
    (svc.pc = "failed" /\ svc.answers = "transient") => svc.code = 504

\* the k-th delay of the schedule 2, 4, 8, 16, 20, 20, ...
BackoffSchedule(k) ==
    CASE k = 1 -> 2 [] k = 2 -> 4 [] k = 3 -> 8 [] k = 4 -> 16 [] OTHER -> 20

\* C16: the sleeps between retries are 2, 4, 8, 16, 20, 20, ... seconds; a
\* retry happens only after a transient error and after its sleep; an error
\* of another class ends the call in the step in which it occurs, with no
\* sleep and no further request.
C16_BackoffSchedule ==
    [][/\ \A k \in 1..Len(svc'.delays) : svc'.delays[k] = BackoffSchedule(k)
       /\ svc'.pc = "backoff" => (svc'.cause = "transient" /\ svc'.delays = svc.delays)
       /\ (svc'.pc = "enable" /\ svc.pc # "idle")
             => (svc.pc = "backoff" /\ Len(svc'.delays) = Len(svc.delays) + 1)
       /\ (svc.pc \in {"enable", "poll"} /\ svc'.answers \in {"fatal", "mixed"}
           /\ svc'.cause = "fatal")
             => (svc'.pc = "failed" /\ svc'.code = 500 /\ svc'.delays = svc.delays
                 /\ svc'.elapsed - svc.elapsed \in PollDurations)
       /\ svc.pc = "failed" => svc' = svc]_vars

\* seven retries were made: the delay reached the cap and stayed there
C16_Witness ==
    /\ Len(svc.delays) >= 7
    /\ svc.delays[5] = 20
    /\ svc.delays[7] = 20
    /\ svc.pc = "enable"

(***************************************************************************)
(* The agent's cycles.                                                     *)
(***************************************************************************)
LoopPcs == {"fetch", "write", "down_wg", "up_wg", "report", "report_err", "sleep"}
Applying == node.pc \in {"write", "down_wg", "up_wg"}

\* the step in which a cycle's fetch returns a configuration
Fetched == node.pc = "fetch" /\ node'.pc \in {"write", "report"}

\* the step in which an apply ends well
ApplyEnds == node.pc = "up_wg" /\ node'.pc = "report"

\* the step in which an apply fails
ApplyFails == Applying /\ node'.pc = "report_err"

\* the step in which a status post was answered
Reported == node.pc = "report" /\ node'.pc = "sleep"

\* the status the record of the agent holds
StoredStatus ==
    IF node.agent_id \in 1..Len(agents)
    THEN agents[node.agent_id].status_json ELSE None

\* C17 as stated: a cycle that fetches a configuration this process has
\* applied before performs no apply.
C17_NoReapplyOfApplied ==
    [][(Fetched /\ node'.conf \in node.history) => node'.pc = "report"]_vars

\* C17: a cycle that ends an apply of c leaves the last-applied hash at
\* hash(c); a later cycle that fetches the content whose hash is the
\* last-applied hash performs no apply (the file and the interface are left
\* alone) and reports applied=false with the unchanged hash.
C17_NoReapplyOfLastApplied ==
    [][/\ ApplyEnds => (node'.last_hash = sha256(node.conf) /\ node'.applied)
       /\ (Fetched /\ node'.conf # "" /\ sha256(node'.conf) = node.last_hash)
             => /\ node'.pc = "report"
                /\ ~node'.applied
                /\ node'.last_hash = node.last_hash
                /\ node'.file = node.file
                /\ node'.iface = node.iface
       /\ (Reported /\ last'.code = 200)
             => agents'[node.agent_id].status_json
                   = Some(Status(node.last_hash, node.applied))
       /\ (node.pc = "report" /\ ~node.applied /\ node.conf # "")
             => sha256(node.conf) = node.last_hash]_vars

\* the record holds the status of a second poll of one configuration:
\* applied=false with the hash the first poll's apply left
C17_Witness ==
    /\ node.pc = "sleep"
    /\ \E c \in AgentConfs :
          /\ node.history = {c}
          /\ node.iface = c
          /\ StoredStatus = Some(Status(sha256(c), FALSE))

\* the step in which the error status of a failed cycle reached the handler
\* and was accepted
ErrorReported ==
    /\ node.pc = "report_err" /\ node'.pc = "sleep"
    /\ core' # core /\ last'.code = 200

\* C19: the last-applied hash changes only in the step that ends an apply
\* well (or when the process starts), and then to the hash of the
\* configuration just applied; a failed write, down or up leaves it as it
\* was and sends the cycle to the error report, which stores the error and
\* no hash; the next fetch of that configuration goes to the apply again;
\* the hash of a status is the last-applied hash, which is the hash of a
\* configuration whose apply ended well.
C19_HashOnlyAfterApply ==
    [][/\ node'.last_hash # node.last_hash
             => \/ ApplyEnds /\ node'.last_hash = sha256(node.conf)
                             /\ node'.iface = node.conf
                \/ node'.pc = "register" /\ node'.last_hash = ""
       /\ ApplyFails
             => /\ node'.last_hash = node.last_hash
                /\ node'.last_hash # sha256(node.conf)
                /\ node'.error # ""
       /\ ErrorReported
             => agents'[node.agent_id].status_json = Some(ErrorStatus(node.error))
       /\ (Fetched /\ node'.conf # "" /\ sha256(node'.conf) # node.last_hash)
             => node'.pc = "write"
       /\ (Reported /\ last'.code = 200)
             => agents'[node.agent_id].status_json
                   = Some({<<"wg_conf_hash", node.last_hash>>,
                           <<"applied", json_bool(node.applied)>>})
       /\ node.last_hash # ""
             => \E c \in node.history : node.last_hash = sha256(c)]_vars

\* a cycle applies again the configuration whose apply failed after the
\* file was written, and the record holds the error of that failure
C19_Witness ==
    /\ node.pc = "write"
    /\ node.file = node.conf
    /\ node.last_hash # sha256(node.conf)
    /\ StoredStatus = Some(ErrorStatus("CalledProcessError"))

\* the agent is inside the loop of main()
InLoop == node.pc \in LoopPcs

\* the step in which something inside the try of a cycle raises
CycleFails ==
    node.pc \in {"fetch", "write", "down_wg", "up_wg", "report"} /\ node'.pc = "report_err"

Desired(c) ==
    IF node.agent_id \in 1..Len(agents)
    THEN agents[node.agent_id].desired_json = Some(DesiredDict(c))
    ELSE FALSE

\* the agent has applied c and the record's status carries the hash of c
Converged(c) ==
    /\ node.last_hash = sha256(c)
    /\ \E b \in BOOLEAN : StoredStatus = Some(Status(sha256(c), b))

\* C18: when the record's desired configuration stays c from some moment on
\* (a setDesired(c) with no later setDesired) and the agent keeps cycling,
\* its fetch, apply and status report succeeding again and again, then from
\* some moment on the last-applied hash is hash(c) and no apply happens, and
\* the record's status carries hash(c) again and again (a cycle that fails
\* later replaces it by an error status until the next report).
C18_Converges ==
    \A c \in AgentConfs :
        <>[](InLoop /\ Desired(c))
           => /\ <>[](node.last_hash = sha256(c) /\ ~Applying)
              /\ []<>Converged(c)

\* the agent converged to the configuration the operator set after the
\* first one had been applied
C18_Witness ==
    /\ node.pc = "sleep"
    /\ \E c \in AgentConfs :
          /\ Desired(c)
          /\ Converged(c)
          /\ node.iface = c
          /\ node.history = AgentConfs

(***************************************************************************)
(* The start of the agent process.                                         *)
(***************************************************************************)
\* C21: a process started with a token never exits because of its register
\* call: whatever that call does, the process reaches its polling loop.
C21_RegisterFailureNotFatal == node.pc # "crashed"

\* C22: a process inside its polling loop has sent its register request
\* before.
C22_RegisterBeforeFetch == InLoop => node.registered

\* the step in which the process starts
Started == node.pc = "down" /\ node'.pc = "register"

C24_SeenImpliesInstance ==
    \A i \in 1..Len(agents) :
        (agents[i].last_seen_at # None \/ agents[i].status_json # None)
           => agents[i].instance_json # None

\* C24: a record starts with its token and with no instance descriptor, no
\* status and no last-seen time; an instance descriptor once attached is
\* never cleared or replaced; a record that has a reported status has a
\* last-seen time.
C24_InstanceNeverCleared ==
    [][/\ \A i \in 1..Len(agents) :
             agents[i].instance_json # None
                => agents'[i].instance_json = agents[i].instance_json
       /\ \A i \in (Len(agents) + 1)..Len(agents') :
             /\ agents'[i].instance_json = None
             /\ agents'[i].status_json = None
             /\ agents'[i].last_seen_at = None
             /\ agents'[i].agent_token = AgentToken(i)
       /\ \A i \in 1..Len(agents') :
             agents'[i].status_json # None => agents'[i].last_seen_at # None]_vars

\* a record went through the whole life: instance attached, agent seen,
\* status reported, while another record has a status and no instance
C24_Witness ==
    \E i, j \in 1..Len(agents) :
        /\ agents[i].instance_json # None
        /\ agents[i].status_json # None
        /\ agents[i].last_seen_at # None
        /\ agents[j].instance_json = None
        /\ agents[j].status_json # None

(***************************************************************************)
(* The order of the steps of a provisioning run.                           *)
(***************************************************************************)
\* the call that may follow a call of the given kind that went well
NextCalls(kind, create_ip) ==
    CASE kind = "quota" -> {"quota", "fw.get"}
      [] kind = "fw.get" -> IF create_ip THEN {"addr.create"} ELSE {"addr.get"}
      [] kind = "fw.create" -> IF create_ip THEN {"addr.create"} ELSE {"addr.get"}
      [] kind = "addr.create" -> {"addr.get"}
      [] kind = "addr.get" -> {"inst.create"}
      [] OTHER -> {}

\* the k-th provider call of request r is followed by the call of the next
\* step, and only after it went well
FollowedInOrder(r, k) ==
    LET cs == req[r].calls IN
    IF cs[k].kind = "fw.get" /\ cs[k].result = "absent"
    THEN cs[k + 1].kind = "fw.create"
    ELSE /\ cs[k].result = "ok"
         /\ cs[k + 1].kind \in NextCalls(cs[k].kind, req[r].create_ip)

\* the k-th provider call of request r, unless it reads a quota, targets the
\* project the scan selected
TargetsChosen(r, k) ==
    LET c == req[r].calls[k] IN
    IF c.kind = "quota" THEN TRUE
    ELSE IF req[r].chosen = 0 THEN FALSE
    ELSE /\ c.project = ChosenProject(r)
         /\ \E j \in 1..(k - 1) :
               req[r].calls[j] = Call("quota", c.project, "ok")

\* the record of request r carries the instance the run created
RecordUpdated(r) ==
    IF req[r].agent_id \in 1..Len(agents)
    THEN /\ agents[req[r].agent_id].instance_json # None
         /\ agents[req[r].agent_id].vm_name = Some(req[r].name)
         /\ agents[req[r].agent_id].address_name = Some(req[r].address_name)
    ELSE FALSE

\* C25: the provider calls of every run come in the order quota scan,
\* firewall lookup (and create if absent), address reservation (if
\* requested), address lookup and instance creation, each after the one
\* before it went well; none of them is issued before the names were
\* validated and the record created; every call after the scan targets the
\* project the scan selected; the record is updated and the profile
\* mirrored only after the instance creation went well.
C25_StepsInOrder ==
    \A r \in Req :
        LET cs == req[r].calls IN
        /\ cs # <<>>
              => /\ cs[1].kind = "quota"
                 /\ ensure_name(req[r].name)
                 /\ ensure_name(req[r].address_name)
                 /\ req[r].agent_id \in 1..Len(agents)
        /\ \A k \in 1..Len(cs) :
              /\ TargetsChosen(r, k)
              /\ IF k < Len(cs) THEN FollowedInOrder(r, k) ELSE TRUE
        /\ req[r].pc = "done"
              => /\ cs # <<>>
                 /\ cs[Len(cs)] = Call("inst.create", ChosenProject(r), "ok")
                 /\ RecordUpdated(r)
        /\ (req[r].pc # "done" /\ req[r].agent_id \in 1..Len(agents))
              => agents[req[r].agent_id].instance_json = None

\* a run went through every step: the rule was absent and created, the
\* address reserved, the instance created, the profile mirrored
C25_Witness ==
    \E r \in Req :
        /\ req[r].pc = "done"
        /\ req[r].create_ip
        /\ \E k \in 1..Len(req[r].calls) : req[r].calls[k].kind = "fw.create"
        /\ \E k \in 1..Len(req[r].calls) : req[r].calls[k].kind = "addr.create"
        /\ \E p \in DOMAIN profiles : profiles[p] # None

(***************************************************************************)
(* What each operation writes.                                             *)
(***************************************************************************)
RecordFields ==
    {"profile_id", "vm_name", "address_name", "public_ip", "agent_token",
     "desired_json", "instance_json", "status_json", "last_seen_at"}

\* the fields of record i that the step changes
Written(i) == {f \in RecordFields : agents'[i][f] # agents[i][f]}

\* the step ends the provisioning run that created record i
RunEndsFor(i) ==
    \E r \in Req : req[r].agent_id = i /\ req[r].pc = "inst" /\ req'[r].pc = "done"

\* the fields the step may write in record i, given the operation it is
WritableBy(i) ==
    CASE last'.op = "setDesired" ->
            IF last'.agent_id = i THEN {"desired_json"} ELSE {}
      [] last'.op = "setStatus" ->
            IF last'.agent_id = i THEN {"status_json", "last_seen_at"} ELSE {}
      [] last'.op = "getDesired" ->
            IF last'.agent_id = i THEN {"last_seen_at"} ELSE {}
      [] last'.op = "registerAgent" ->
            IF agents[i].agent_token = last'.cred
            THEN {"last_seen_at", "vm_name", "public_ip"} ELSE {}
      [] last'.op = "none" ->
            IF RunEndsFor(i)
            THEN {"vm_name", "address_name", "public_ip", "instance_json"} ELSE {}
      [] OTHER -> {}

\* C26: every step writes, in every record that existed before it, only
\* the fields of its operation in the record it addresses: setDesired the
\* desired blob; setStatus the status and last-seen; getDesired last-seen;
\* getStatus nothing; registerAgent last-seen and a name or IP it was
\* given (never clearing one); the end of a provisioning run the name,
\* address name, public IP and instance descriptor of its own record.
C26_OwnFieldsOnly ==
    [][/\ Len(agents') >= Len(agents)
       /\ \A i \in 1..Len(agents) :
             /\ Written(i) \subseteq WritableBy(i)
             /\ last'.op = "registerAgent"
                   => /\ "vm_name" \in Written(i) => Truthy(agents'[i].vm_name)
                      /\ "public_ip" \in Written(i) => Truthy(agents'[i].public_ip)]_vars

\* a provisioning run has just ended on a record whose desired configuration
\* and status were written while the run was in flight: both are still there
C26_Witness ==
    /\ last = Idle
    /\ \E r \in Req :
          /\ req[r].pc = "done"
          /\ \A q \in Req \ {r} : req[q].pc = "idle"
          /\ agents[req[r].agent_id].instance_json # None
          /\ agents[req[r].agent_id].desired_json # None
          /\ agents[req[r].agent_id].status_json # None

(***************************************************************************)
(* Concurrent selections in the quota pool.                                *)
(***************************************************************************)
\* request r reads the quota of a project in this step and gets an answer
QuotaRead(r) ==
    /\ req[r].pc = "scan"
    /\ Len(req'[r].calls) = Len(req[r].calls) + 1
    /\ req'[r].calls[Len(req'[r].calls)].result = "ok"

\* C27: a scan that has selected nothing yet selects the project whose quota
\* it reads exactly when the provider's usage of that project is below the
\* limit, whatever other requests have selected; the provider's usage
\* changes only when an address reservation of a request goes through.
C27_SelectionReadsUsageOnly ==
    [][/\ \A r \in Req :
             (QuotaRead(r) /\ req[r].chosen = 0)
                => (req'[r].chosen = req[r].idx
                       <=> UnderQuota(projects[req[r].idx].project_id))
       /\ usage' # usage
             => \E r \in Req : req[r].pc = "addr" /\ req'[r].pc \in {"inst", "failed"}]_vars

\* two requests in flight have selected the same project, which has room for
\* one more address, and neither has reserved its address yet
C27_Witness ==
    \E r1, r2 \in Req :
        /\ r1 # r2
        /\ req[r1].pc \in {"fw_get", "fw_create", "addr"}
        /\ req[r2].pc \in {"fw_get", "fw_create", "addr"}
        /\ req[r1].create_ip /\ req[r2].create_ip
        /\ req[r1].chosen = req[r2].chosen
        /\ usage[ChosenProject(r1)] = Some(QuotaLimit - 1)

(***************************************************************************)
(* Project registration.                                                   *)
(***************************************************************************)
\* C28: each project identifier appears at most once in the quota pool.
C28_ProjectIdsUnique ==
    \A i, j \in 1..Len(projects) :
        projects[i].project_id = projects[j].project_id => i = j

(***************************************************************************)
(* The node's file and interface.                                          *)
(***************************************************************************)
\* C29: in a cycle that reaches its status report with a fetched
\* configuration whose hash is the last-applied hash, the file holds that
\* configuration and the interface runs it.
C29_NodeHoldsApplied ==
    (node.pc = "report" /\ node.conf # "" /\ sha256(node.conf) = node.last_hash)
       => (node.file = node.conf /\ node.iface = node.conf)

(***************************************************************************)
(* The default address name.                                               *)
(***************************************************************************)
\* C30: a request with a node name of 3 to 63 characters that matches the
\* pattern and with no address name passes validation and goes on with the
\* address name <name>-ip.
C30_DefaultAddressAccepted ==
    \A r \in Req :
        (req[r].pc # "idle" /\ NameFieldOk(req[r].name) /\ NAME_RE_match(req[r].name))
           => /\ ~(req[r].pc = "failed" /\ req[r].code \in {400, 422})
              /\ req[r].address_name = DefaultAddressName(req[r].name)

====
